---- MODULE Spec2Model ----
(***************************************************************************)
(* A model of @tokenring-ai/codebase: the resource registry and the        *)
(* per-agent set of enabled resources (CodeBaseService, CodeBaseState),    *)
(* and the three-phase context assembly (getContextItems) with the         *)
(* repository-map synthesizer (generateRepoMap).                           *)
(*                                                                         *)
(* A resource name "src/foo" is the sequence of its segments               *)
(* <<"src", "foo">>; the wildcard pattern "src/*" is <<"src", "*">>.       *)
(* A JavaScript Set is a sequence without duplicates, in insertion order.  *)
(* A text is the sequence of the pieces it is concatenated from.           *)
(***************************************************************************)
EXTENDS Integers, Sequences, FiniteSets, TLC

VARIABLES
    config,     \* the app's codebase.resources, in key order: <<[name, type]>>
    registry,   \* KeyedRegistry items in insertion order: <<[name, type]>>
    attached,   \* the agents whose CodeBaseState has been initialized
    enabled,    \* per agent: CodeBaseState.enabledResources
    snapshot,   \* the last serialize() output kept by the host: [taken, data]
    lastOp,     \* the last service call: what was asked and how it ended
    matched,    \* per resource name: the files its addFilesToSet inserts
    fs,         \* per file: its content, or ReadError
    asm,        \* the getContextItems generator of agent "s1"
    reporter,   \* agent.errorLine: "works" or "throws"
    call,       \* per caller: its direct call of generateRepoMap, pending or ended
    display,    \* what the chat command that ended last wrote to the agent
    pending     \* the chat commands of agent "s1" that are suspended at an await

vars ==
    <<config, registry, attached, enabled, snapshot, lastOp, matched, fs, asm,
      reporter, call, display, pending>>

----------------------------------------------------------------------------
(* Universes *)

\* Longest name list given to enable / disable / set in Spec.
MaxNames == 2

Sessions == {"s1", "s2"}

Names == {<<"src">>, <<"src", "foo">>, <<"other", "baz">>}

\* What a caller may type: names, a wildcard pattern with matches, and a
\* name and a wildcard pattern that nothing in the configuration matches.
Patterns ==
    {<<"src", "foo">>, <<"other", "baz">>, <<"src", "*">>, <<"ghost">>, <<"ghost", "*">>}

Kinds == {"fileTree", "repoMap", "wholeFile"}

NoSnapshot == [taken |-> FALSE, data |-> <<>>]

\* A config.codebase.resources as plugin.install reads it: one resource of
\* each kind, in the kinds and the order of the README's example, under
\* names of one and two segments (as the src/utils and src/* of the
\* command's help), so that a pattern has names to stand for.
DefaultConfig ==
    << [name |-> <<"src">>, type |-> "fileTree"],
       [name |-> <<"src", "foo">>, type |-> "repoMap"],
       [name |-> <<"other", "baz">>, type |-> "wholeFile"] >>

Range(s) == {s[i] : i \in DOMAIN s}

SeqsUpTo(S, n) == UNION {[1..k -> S] : k \in 0..n}

\* The sequences over S without duplicates: the values of a Set<S>.
OrderedSets(S) == {q \in SeqsUpTo(S, Cardinality(S)) : Cardinality(Range(q)) = Len(q)}

----------------------------------------------------------------------------
(* JavaScript Set<string> *)

SetAdd(set, x) == IF x \in Range(set) THEN set ELSE Append(set, x)

SetDelete(set, x) == SelectSeq(set, LAMBDA y : y # x)

RECURSIVE SetAddAll(_, _)
SetAddAll(set, list) ==
    IF list = <<>> THEN set
    ELSE SetAddAll(SetAdd(set, Head(list)), Tail(list))

RECURSIVE SetDeleteAll(_, _)
SetDeleteAll(set, list) ==
    IF list = <<>> THEN set
    ELSE SetDeleteAll(SetDelete(set, Head(list)), Tail(list))

NewSet(list) == SetAddAll(<<>>, list)

----------------------------------------------------------------------------
(* KeyedRegistry *)

RegisteredNames(reg) == {reg[i].name : i \in DOMAIN reg}

\* register(name, item): a new key is appended, an existing key keeps its
\* place and takes the new item.
RegistryRegister(reg, name, type) ==
    IF name \in RegisteredNames(reg)
    THEN [i \in DOMAIN reg |->
            IF reg[i].name = name THEN [name |-> name, type |-> type] ELSE reg[i]]
    ELSE Append(reg, [name |-> name, type |-> type])

IsWildcard(pattern) == Len(pattern) >= 2 /\ pattern[Len(pattern)] = "*"

IsPrefixOf(p, n) == Len(p) <= Len(n) /\ SubSeq(n, 1, Len(p)) = p

RECURSIVE NamesOf(_)
NamesOf(reg) == IF reg = <<>> THEN <<>> ELSE <<Head(reg).name>> \o NamesOf(Tail(reg))

\* A bug: p/* stands only for the names nested under p, not for p itself.
GetItemNamesUnder(pattern, reg) ==
    IF IsWildcard(pattern)
    THEN SelectSeq(NamesOf(reg),
                   LAMBDA n : /\ IsPrefixOf(SubSeq(pattern, 1, Len(pattern) - 1), n)
                              /\ Len(n) > Len(pattern) - 1)
    ELSE SelectSeq(NamesOf(reg), LAMBDA n : n = pattern)

\* The registered names a pattern stands for, in registry order.
GetItemNamesLike(pattern, reg) ==
    IF IsWildcard(pattern)
    THEN SelectSeq(NamesOf(reg),
                   LAMBDA n : IsPrefixOf(SubSeq(pattern, 1, Len(pattern) - 1), n))
    ELSE SelectSeq(NamesOf(reg), LAMBDA n : n = pattern)

\* ensureItemNamesLike throws when nothing matches.
Resolves(pattern, reg) == GetItemNamesLike(pattern, reg) # <<>>

RequireItemByName(name, reg) ==
    LET i == CHOOSE j \in DOMAIN reg : reg[j].name = name IN reg[i]

----------------------------------------------------------------------------
(* CodeBaseService: enable / disable / set *)

\* resourceNames.map(ensureItemNamesLike).flat(), when no call throws.
RECURSIVE Flat(_, _)
Flat(resourceNames, reg) ==
    IF resourceNames = <<>> THEN <<>>
    ELSE GetItemNamesLike(Head(resourceNames), reg) \o Flat(Tail(resourceNames), reg)

AllResolve(resourceNames, reg) ==
    \A i \in DOMAIN resourceNames : Resolves(resourceNames[i], reg)

\* Each mutator is [ok, set]: ok is FALSE when ensureItemNamesLike threw,
\* which happens before mutateState is entered.

\* The behaviour of the earlier "set" command: the names are added to the
\* set, and the names enabled before stay.
SetEnabledUnion(resourceNames, reg, set) ==
    IF AllResolve(resourceNames, reg)
    THEN [ok |-> TRUE, set |-> SetAddAll(set, Flat(resourceNames, reg))]
    ELSE [ok |-> FALSE, set |-> set]

SetEnabledResources(resourceNames, reg, set) ==
    IF AllResolve(resourceNames, reg)
    THEN [ok |-> TRUE, set |-> NewSet(Flat(resourceNames, reg))]
    ELSE [ok |-> FALSE, set |-> set]

\* A bug: each name is resolved and applied in turn, so a later unknown
\* name throws after the earlier ones were added.
RECURSIVE ApplyUntilThrow(_, _, _)
ApplyUntilThrow(resourceNames, reg, set) ==
    IF resourceNames = <<>> THEN set
    ELSE IF ~Resolves(Head(resourceNames), reg) THEN set
    ELSE ApplyUntilThrow(Tail(resourceNames), reg,
                         SetAddAll(set, GetItemNamesLike(Head(resourceNames), reg)))

EnablePartially(resourceNames, reg, set) ==
    IF AllResolve(resourceNames, reg)
    THEN [ok |-> TRUE, set |-> SetAddAll(set, Flat(resourceNames, reg))]
    ELSE [ok |-> FALSE, set |-> ApplyUntilThrow(resourceNames, reg, set)]

\* A bug: the names are pushed onto a list, not added to a Set.
EnableAppending(resourceNames, reg, set) ==
    IF AllResolve(resourceNames, reg)
    THEN [ok |-> TRUE, set |-> set \o Flat(resourceNames, reg)]
    ELSE [ok |-> FALSE, set |-> set]

EnableResources(resourceNames, reg, set) ==
    IF AllResolve(resourceNames, reg)
    THEN [ok |-> TRUE, set |-> SetAddAll(set, Flat(resourceNames, reg))]
    ELSE [ok |-> FALSE, set |-> set]

\* A bug: the names as typed are deleted, not the names they resolve to.
DisableAsTyped(resourceNames, reg, set) ==
    IF AllResolve(resourceNames, reg)
    THEN [ok |-> TRUE, set |-> SetDeleteAll(set, resourceNames)]
    ELSE [ok |-> FALSE, set |-> set]

\* A disable that refuses a name that is not enabled, as an operation on
\* a list of enabled entries would: not what the code does.
DisableRequiringEnabled(resourceNames, reg, set) ==
    IF /\ AllResolve(resourceNames, reg)
       /\ Range(Flat(resourceNames, reg)) \subseteq Range(set)
    THEN [ok |-> TRUE, set |-> SetDeleteAll(set, Flat(resourceNames, reg))]
    ELSE [ok |-> FALSE, set |-> set]

DisableResources(resourceNames, reg, set) ==
    IF AllResolve(resourceNames, reg)
    THEN [ok |-> TRUE, set |-> SetDeleteAll(set, Flat(resourceNames, reg))]
    ELSE [ok |-> FALSE, set |-> set]

----------------------------------------------------------------------------
(* CodeBaseState *)

\* new CodeBaseState(initialConfig): every configured name is added.
StateConstructor(initialEnabled) == SetAddAll(<<>>, initialEnabled)

\* transferStateFromParent: the parent's names are added to the child's set.
TransferStateFromParent(childSet, parentSet) == SetAddAll(childSet, parentSet)

\* serialize(): Array.from(enabledResources).
StateSerialize(set) == set

\* deserialize(data): new Set(data.enabledResources).
StateDeserialize(data) == NewSet(data)

----------------------------------------------------------------------------
(* The calls on the service and on the state slice, as actions *)

Attached(s) == s \in attached

AsmVars == <<matched, fs, asm, reporter, call, display, pending>>

\* plugin install: registerResource for the next key of config.resources.
Register ==
    /\ Len(registry) < Len(config)
    /\ LET e == config[Len(registry) + 1] IN
         registry' = RegistryRegister(registry, e.name, e.type)
    /\ UNCHANGED <<config, attached, enabled, snapshot, AsmVars>>

\* attach(agent): the configured names are resolved, then the state is
\* initialized; when a name does not resolve nothing is initialized.
\* An attach that hands the configured names to the state as written,
\* patterns unexpanded: not what the code does.
AttachAsConfigured(cfg, reg) == [ok |-> TRUE, set |-> StateConstructor(cfg)]

AttachOutcome(cfg, reg) ==
    IF AllResolve(cfg, reg)
    THEN [ok |-> TRUE, set |-> StateConstructor(Flat(cfg, reg))]
    ELSE [ok |-> FALSE, set |-> <<>>]

Attach(s, cfg) ==
    /\ ~Attached(s)
    /\ LET r == AttachOutcome(cfg, registry) IN
         /\ attached' = IF r.ok THEN attached \cup {s} ELSE attached
         /\ enabled' = [enabled EXCEPT ![s] = r.set]
    /\ UNCHANGED <<config, registry, snapshot, AsmVars>>

\* One enabled set kept by the service for all agents, as before the set
\* moved into the agent's state: not what the code does.
MutateEveryAgent(s, r) ==
    /\ enabled' = [t \in Sessions |-> r.set]
    /\ UNCHANGED <<config, registry, attached, snapshot, AsmVars>>

Mutate(s, r) ==
    /\ enabled' = [enabled EXCEPT ![s] = r.set]
    /\ UNCHANGED <<config, registry, attached, snapshot, AsmVars>>

Enable(s, names) ==
    /\ Attached(s)
    /\ Mutate(s, EnableResources(names, registry, enabled[s]))

Disable(s, names) ==
    /\ Attached(s)
    /\ Mutate(s, DisableResources(names, registry, enabled[s]))

SetEnabled(s, names) ==
    /\ Attached(s)
    /\ Mutate(s, SetEnabledResources(names, registry, enabled[s]))

\* A sub-agent: attach builds the child's state from its own configuration,
\* then the parent's state is transferred into it.
ForkOutcome(cfg, reg, parentSet) ==
    LET a == AttachOutcome(cfg, reg) IN
    IF a.ok THEN [ok |-> TRUE, set |-> TransferStateFromParent(a.set, parentSet)]
    ELSE a

Fork(parent, child, cfg) ==
    /\ Attached(parent)
    /\ ~Attached(child)
    /\ LET r == ForkOutcome(cfg, registry, enabled[parent]) IN
         /\ attached' = IF r.ok THEN attached \cup {child} ELSE attached
         /\ enabled' = [enabled EXCEPT ![child] = r.set]
    /\ UNCHANGED <<config, registry, snapshot, AsmVars>>

Serialize(s) ==
    /\ Attached(s)
    /\ snapshot' = [taken |-> TRUE, data |-> StateSerialize(enabled[s])]
    /\ UNCHANGED <<config, registry, attached, enabled, AsmVars>>

\* A restore that adds the listed names to the set the agent holds, as the
\* transfer from a parent does: not what the code does.
DeserializeAdding(s, data) ==
    /\ Attached(s)
    /\ enabled' = [enabled EXCEPT ![s] = SetAddAll(enabled[s], data)]
    /\ UNCHANGED <<config, registry, attached, snapshot, AsmVars>>

\* deserialize takes whatever list of strings the host hands it.
Deserialize(s, data) ==
    /\ Attached(s)
    /\ enabled' = [enabled EXCEPT ![s] = StateDeserialize(data)]
    /\ UNCHANGED <<config, registry, attached, snapshot, AsmVars>>

----------------------------------------------------------------------------
(* The observer: lastOp records the call a step made.  It is no part of    *)
(* the program; the properties read it to know which call has just acted.  *)

\* The call, its outcome, and the agent's enabled set before the call.
Op(op, s, names, ok, before) ==
    [op |-> op, s |-> s, names |-> names, ok |-> ok, before |-> before]

\* The call and its outcome only.
Brief(op, s, names, ok) == [op |-> op, s |-> s, names |-> names, ok |-> ok]

NoOp == Op("none", "s1", <<>>, TRUE, <<>>)

NoBrief == Brief("none", "s1", <<>>, TRUE)

----------------------------------------------------------------------------
(* Specifications of the registry and the enabled sets *)

NameLists(n) == SeqsUpTo(Patterns, n)

IdleAsm == [pc |-> "idle", busy |-> FALSE]

\* The callers of generateRepoMap whose calls may overlap.
Calls == {"A", "B"}

NoCall == [made |-> FALSE, busy |-> FALSE]

NoCalls == [c \in Calls |-> NoCall]

\* No show repo suspended, no selection question open.
NoShow == [open |-> FALSE]

NoQuestion == [open |-> FALSE]

NothingPending == [show |-> NoShow, select |-> NoQuestion]

Init ==
    /\ config = DefaultConfig
    /\ registry = <<>>
    /\ attached = {}
    /\ enabled = [s \in Sessions |-> <<>>]
    /\ snapshot = NoSnapshot
    /\ lastOp = NoOp
    /\ matched = [n \in Names |-> <<>>]
    /\ fs = <<>>
    /\ asm = IdleAsm
    /\ reporter = "works"
    /\ call = NoCalls
    /\ display = <<>>
    /\ pending = NothingPending

\* One agent, name lists of up to MaxNames patterns.
Next ==
    \/ Register /\ lastOp' = Op("register", "s1", <<>>, TRUE, <<>>)
    \/ \E names \in NameLists(MaxNames) :
         LET set == enabled["s1"] IN
         \/ /\ Attach("s1", names)
            /\ lastOp' = Op("attach", "s1", names, AttachOutcome(names, registry).ok, <<>>)
         \/ /\ Enable("s1", names)
            /\ lastOp' = Op("enable", "s1", names,
                            EnableResources(names, registry, set).ok, set)
         \/ /\ Disable("s1", names)
            /\ lastOp' = Op("disable", "s1", names,
                            DisableResources(names, registry, set).ok, set)
         \/ /\ SetEnabled("s1", names)
            /\ lastOp' = Op("set", "s1", names,
                            SetEnabledResources(names, registry, set).ok, set)

Spec == Init /\ [][Next]_vars

\* Two agents with fork, snapshot and restore, over a registry of two
\* resources; name lists of at most one pattern.
LifeConfig == SubSeq(DefaultConfig, 1, 2)

LifePatterns == {<<"src">>, <<"src", "foo">>, <<"src", "*">>, <<"ghost">>}

LifeLists == SeqsUpTo(LifePatterns, 1)

\* What a host may hand to deserialize besides the snapshot it took: here a
\* list naming a resource of an earlier configuration.
RestoreData == {<<>>, << <<"ghost">> >>}

\* The plugin has installed every resource before the first agent attaches;
\* the second agent is a sub-agent of the first.
LifeInit ==
    /\ config = LifeConfig
    /\ registry = LifeConfig
    /\ attached = {}
    /\ enabled = [s \in Sessions |-> <<>>]
    /\ snapshot = NoSnapshot
    /\ lastOp = NoBrief
    /\ matched = [n \in Names |-> <<>>]
    /\ fs = <<>>
    /\ asm = IdleAsm
    /\ reporter = "works"
    /\ call = NoCalls
    /\ display = <<>>
    /\ pending = NothingPending

LifeNext ==
    \/ \E names \in LifeLists :
         \/ /\ Attach("s1", names)
            /\ lastOp' = Brief("attach", "s1", names, AttachOutcome(names, registry).ok)
         \/ /\ Fork("s1", "s2", names)
            /\ lastOp' = Brief("fork", "s2", names,
                               ForkOutcome(names, registry, enabled["s1"]).ok)
    \/ \E s \in Sessions, names \in LifeLists :
         \/ /\ Enable(s, names)
            /\ lastOp' = Brief("enable", s, names,
                               EnableResources(names, registry, enabled[s]).ok)
         \/ /\ Disable(s, names)
            /\ lastOp' = Brief("disable", s, names,
                               DisableResources(names, registry, enabled[s]).ok)
         \/ /\ SetEnabled(s, names)
            /\ lastOp' = Brief("set", s, names,
                               SetEnabledResources(names, registry, enabled[s]).ok)
    \/ \E s \in Sessions :
         \/ Serialize(s) /\ lastOp' = Brief("serialize", s, <<>>, TRUE)
         \/ /\ snapshot.taken
            /\ Deserialize(s, snapshot.data)
            /\ lastOp' = Brief("deserialize", s, snapshot.data, TRUE)
         \/ \E data \in RestoreData :
              Deserialize(s, data) /\ lastOp' = Brief("deserialize", s, data, TRUE)

LifeSpec == LifeInit /\ [][LifeNext]_vars

----------------------------------------------------------------------------
(* Files, contents and the chunker *)

Files == {"b.py", "a.ts", "readme.md"}

\* The files in the order of Array.prototype.sort (by UTF-16 code units).
SortedFiles == <<"a.ts", "b.py", "readme.md">>

\* A bug: the set is left in insertion order.
Unsorted(fileSet) == fileSet

Sort(fileSet) == SelectSeq(SortedFiles, LAMBDA f : f \in Range(fileSet))

ReadError == "<read error>"

\* File contents: two symbols; one symbol whose text starts with a blank
\* line; no symbol; text the parser rejects; prose; the empty file.
CodeTwo == "def foo():|  return 1|  class Bar:  |    pass"
CodeBlank == "   |x = 1"
CodeNone == "# nothing to see"
CodeBad == "def ("
Prose == "Read me."
Empty == ""

Contents == {CodeTwo, CodeBlank, CodeNone, CodeBad, Prose, Empty}

\* path.extname
ExtName(file) ==
    CASE file = "a.ts" -> ".ts"
      [] file = "b.py" -> ".py"
      [] file = "readme.md" -> ".md"
      [] OTHER -> ""

NoLanguage == "null"

GetLanguageFromExtension(ext) ==
    CASE ext \in {".js", ".jsx"} -> "javascript"
      [] ext \in {".ts", ".tsx"} -> "typescript"
      [] ext = ".py" -> "python"
      [] ext \in {".h", ".c"} -> "c"
      [] ext \in {".hxx", ".cxx", ".hpp", ".cpp"} -> "cpp"
      [] ext = ".rs" -> "rust"
      [] ext = ".go" -> "go"
      [] ext = ".java" -> "java"
      [] ext \in {".rb"} -> "ruby"
      [] ext \in {".sh", ".bash"} -> "bash"
      [] OTHER -> NoLanguage

\* code-chopper's parseCodeAndChunk: the chunks of a text, each chunk's
\* content given as its lines, or a parse failure.
ParseCodeAndChunk(code) ==
    CASE code = CodeTwo ->
           [ok |-> TRUE, chunks |-> << <<"def foo():", "  return 1">>,
                                       <<"  class Bar:  ", "    pass">> >>]
      [] code = CodeBlank -> [ok |-> TRUE, chunks |-> << <<"   ", "x = 1">> >>]
      [] code = CodeBad -> [ok |-> FALSE, chunks |-> <<>>]
      [] OTHER -> [ok |-> TRUE, chunks |-> <<>>]

\* String.prototype.trim on the lines that occur.
Trim(line) ==
    CASE line = "  class Bar:  " -> "class Bar:"
      [] line = "   " -> ""
      [] line = "  return 1" -> "return 1"
      [] line = "    pass" -> "pass"
      [] OTHER -> line

----------------------------------------------------------------------------
(* CodeBaseService.generateRepoMap *)

RepoMapPreamble ==
    "// These are snippets of the symbols in the project. This DOES NOT contain the full file contents. This only includes relevant symbols for you to reference so you know what to retrieve with the retrieveFiles resource:"

\* What a call did besides computing its result, in order.
Event(ev, phase, name, file) == [ev |-> ev, phase |-> phase, name |-> name, file |-> file]

\* The calls the code awaits.  While one of them is pending the function
\* that made it is suspended and other callbacks of the agent can run;
\* everything else a function does between two awaits is done in one go.
Awaited == {"addFilesToSet", "getFile", "chunk", "readTextFile"}

\* After event k of a run the run returns to the event loop: the event is
\* an awaited call, or it is the last thing generateRepoMap does (the
\* dispose, or the errorLine that throws), after which its caller, which
\* awaits it, is resumed in a later turn.
ReturnsAfter(whole, k) ==
    \/ whole[k].ev \in Awaited
    \/ whole[k].ev = "dispose"
    \/ whole[k].ev = "errorLine" /\ k = Len(whole)

\* The place, among all the events of a run, of the first return to the
\* event loop after the events already made; 0 when there is none.
NextAwait(made, whole) ==
    LET later == {k \in (Len(made) + 1)..Len(whole) : ReturnsAfter(whole, k)}
    IN IF later = {} THEN 0 ELSE CHOOSE k \in later : \A j \in later : k <= j

\* The events made when the run has gone on to its next return.
UpToNextAwait(made, whole) ==
    IF NextAwait(made, whole) = 0 THEN made ELSE SubSeq(whole, 1, NextAwait(made, whole))

RECURSIVE ChunkLines(_)
ChunkLines(chunks) ==
    IF chunks = <<>> THEN <<>>
    ELSE LET firstLine == Trim(Head(chunks)[1]) IN
         (IF firstLine # "" THEN <<"- ", firstLine, "\n">> ELSE <<>>)
         \o ChunkLines(Tail(chunks))

\* formatFileOutput: null for no chunks, else the header and the bullets.
FormatFileOutput(filePath, chunks) ==
    IF chunks = <<>> THEN [present |-> FALSE, text |-> <<>>]
    ELSE [present |-> TRUE, text |-> <<filePath, ":", "\n">> \o ChunkLines(chunks)]

\* agent.errorLine in the catch block: it returns, or it throws in turn.
Reporting == {"works", "throws"}

\* A bug: the language table is not consulted, every readable file that
\* is not empty goes to the chunker.
ProcessFileAnyExtension(file, files, report) ==
    LET code == files[file] IN
    IF code = ReadError
    THEN [section |-> <<>>, pushed |-> FALSE, threw |-> report = "throws",
          log |-> <<Event("getFile", "repoMap", <<>>, file),
                    Event("errorLine", "repoMap", <<>>, file)>>]
    ELSE IF code = ""
    THEN [section |-> <<>>, pushed |-> FALSE, threw |-> FALSE,
          log |-> <<Event("getFile", "repoMap", <<>>, file)>>]
    ELSE LET parsed == ParseCodeAndChunk(code) IN
         IF ~parsed.ok
         THEN [section |-> <<>>, pushed |-> FALSE, threw |-> report = "throws",
               log |-> <<Event("getFile", "repoMap", <<>>, file),
                         Event("chunk", "repoMap", <<>>, file),
                         Event("errorLine", "repoMap", <<>>, file)>>]
         ELSE LET out == FormatFileOutput(file, parsed.chunks) IN
              [section |-> out.text, pushed |-> out.present /\ out.text # <<>>,
               threw |-> FALSE,
               log |-> <<Event("getFile", "repoMap", <<>>, file),
                         Event("chunk", "repoMap", <<>>, file)>>]

\* A bug: no try around the loop body, a failing file ends the call.
ProcessFileUncaught(file, files, report) ==
    LET code == files[file] IN
    IF code = ReadError
    THEN [section |-> <<>>, pushed |-> FALSE, threw |-> TRUE,
          log |-> <<Event("getFile", "repoMap", <<>>, file)>>]
    ELSE IF code = "" \/ GetLanguageFromExtension(ExtName(file)) = NoLanguage
    THEN [section |-> <<>>, pushed |-> FALSE, threw |-> FALSE,
          log |-> <<Event("getFile", "repoMap", <<>>, file)>>]
    ELSE LET parsed == ParseCodeAndChunk(code) IN
         IF ~parsed.ok
         THEN [section |-> <<>>, pushed |-> FALSE, threw |-> TRUE,
               log |-> <<Event("getFile", "repoMap", <<>>, file),
                         Event("chunk", "repoMap", <<>>, file)>>]
         ELSE LET out == FormatFileOutput(file, parsed.chunks) IN
              [section |-> out.text, pushed |-> out.present /\ out.text # <<>>,
               threw |-> FALSE,
               log |-> <<Event("getFile", "repoMap", <<>>, file),
                         Event("chunk", "repoMap", <<>>, file)>>]

\* One pass of the loop body for a file: the section pushed (if any),
\* whether the pass threw out of its catch block, and the events.
ProcessFile(file, files, report) ==
    LET code == files[file] IN
    IF code = ReadError
    THEN [section |-> <<>>, pushed |-> FALSE, threw |-> report = "throws",
          log |-> <<Event("getFile", "repoMap", <<>>, file),
                    Event("errorLine", "repoMap", <<>>, file)>>]
    ELSE IF code = "" \/ GetLanguageFromExtension(ExtName(file)) = NoLanguage
    THEN [section |-> <<>>, pushed |-> FALSE, threw |-> FALSE,
          log |-> <<Event("getFile", "repoMap", <<>>, file)>>]
    ELSE LET parsed == ParseCodeAndChunk(code) IN
         IF ~parsed.ok
         THEN [section |-> <<>>, pushed |-> FALSE, threw |-> report = "throws",
               log |-> <<Event("getFile", "repoMap", <<>>, file),
                         Event("chunk", "repoMap", <<>>, file),
                         Event("errorLine", "repoMap", <<>>, file)>>]
         ELSE LET out == FormatFileOutput(file, parsed.chunks) IN
              [section |-> out.text, pushed |-> out.present /\ out.text # <<>>,
               threw |-> FALSE,
               log |-> <<Event("getFile", "repoMap", <<>>, file),
                         Event("chunk", "repoMap", <<>>, file)>>]

\* The loop over the files: the sections pushed onto repoMap, whether an
\* exception left the loop, and the events.
RECURSIVE RepoMapLoop(_, _, _)
RepoMapLoop(fileList, files, report) ==
    IF fileList = <<>> THEN [sections |-> <<>>, threw |-> FALSE, log |-> <<>>]
    ELSE LET one == ProcessFile(Head(fileList), files, report) IN
         IF one.threw THEN [sections |-> <<>>, threw |-> TRUE, log |-> one.log]
         ELSE LET rest == RepoMapLoop(Tail(fileList), files, report) IN
              [sections |-> (IF one.pushed THEN <<one.section>> ELSE <<>>) \o rest.sections,
               threw |-> rest.threw,
               log |-> one.log \o rest.log]

\* Array.prototype.join of texts.
RECURSIVE Join(_, _)
Join(texts, sep) ==
    IF texts = <<>> THEN <<>>
    ELSE IF Len(texts) = 1 THEN texts[1]
    ELSE texts[1] \o <<sep>> \o Join(Tail(texts), sep)

\* A bug: an empty report is returned as an empty string.
GenerateRepoMapEmptyString(fileList, files, report) ==
    LET loop == RepoMapLoop(fileList, files, report)
        made == <<Event("createParserFactory", "repoMap", <<>>, "")>> \o loop.log
        log == made \o <<Event("dispose", "repoMap", <<>>, "")>>
    IN IF loop.threw
       THEN [threw |-> TRUE, present |-> FALSE, text |-> <<>>, log |-> made]
       ELSE [threw |-> FALSE, present |-> TRUE,
             text |-> IF Len(loop.sections) > 0
                      THEN <<RepoMapPreamble, "\n">> \o Join(loop.sections, "\n")
                      ELSE <<>>,
             log |-> log]

\* generateRepoMap: the text or null, or the exception that left the loop;
\* factory.dispose() follows the loop and is not reached by an exception.
GenerateRepoMap(fileList, files, report) ==
    LET loop == RepoMapLoop(fileList, files, report)
        made == <<Event("createParserFactory", "repoMap", <<>>, "")>> \o loop.log
        log == made \o <<Event("dispose", "repoMap", <<>>, "")>>
    IN IF loop.threw
       THEN [threw |-> TRUE, present |-> FALSE, text |-> <<>>, log |-> made]
       ELSE IF Len(loop.sections) > 0
       THEN [threw |-> FALSE, present |-> TRUE,
             text |-> <<RepoMapPreamble, "\n">> \o Join(loop.sections, "\n"),
             log |-> log]
       ELSE [threw |-> FALSE, present |-> FALSE, text |-> <<>>, log |-> log]

\* A caller (a tool, a test) calls generateRepoMap on a set of files: the
\* call creates its factory and runs to its first await.  What it will
\* return is settled by the files, which do not change; `result` holds it
\* and `log` the calls made so far.
CallGenerateRepoMap(c, fileList) ==
    /\ ~call[c].busy
    /\ LET result == GenerateRepoMap(fileList, fs, reporter) IN
         call' = [call EXCEPT ![c] = [made |-> FALSE, busy |-> TRUE, files |-> fileList,
                                      result |-> result,
                                      log |-> UpToNextAwait(<<>>, result.log)]]
    /\ UNCHANGED <<config, registry, attached, enabled, snapshot, matched, fs, asm,
                   reporter, display, pending>>

\* The awaited getFile or parseCodeAndChunk of a pending call completes
\* and the call goes on to its next await or to its end, or the call has
\* ended and its promise settles.
GenerateRepoMapTurn(c) ==
    /\ call[c].busy
    /\ LET k == call[c] IN
         call' = [call EXCEPT ![c] =
                    IF NextAwait(k.log, k.result.log) = 0
                    THEN [k EXCEPT !.made = TRUE, !.busy = FALSE, !.log = k.result.log]
                    ELSE [k EXCEPT !.log = UpToNextAwait(k.log, k.result.log)]]
    /\ UNCHANGED <<config, registry, attached, enabled, snapshot, matched, fs, asm,
                   reporter, display, pending>>

----------------------------------------------------------------------------
(* contextHandlers/codebaseContext: getContextItems *)

TreeHeader == "// Directory Tree of project files:"

WholeFilePrefix == "// Complete contents of file: "

Item(content) == [role |-> "user", content |-> content]

\* getEnabledResources: requireItemByName for every enabled name.
GetEnabledResources(set, reg) == [i \in DOMAIN set |-> RequireItemByName(set[i], reg)]

\* A bug: the tree phase takes every resource, as getMemories once did.
InEveryPhase(type) == TRUE

InTreePhase(type) == type # "wholeFile" /\ type # "repoMap"
InRepoMapPhase(type) == type = "repoMap"
InWholeFilePhase(type) == type = "wholeFile"

\* The filter of the phase's loop over the resources.
Wanted(phase, type) ==
    CASE phase = "tree" -> InTreePhase(type)
      [] phase = "repoMap" -> InRepoMapPhase(type)
      [] phase = "wholeFile" -> InWholeFilePhase(type)

\* A bug: an enumerator that throws is taken to have found nothing.
RECURSIVE EnumerateSwallowing(_, _, _, _)
EnumerateSwallowing(resources, phase, found, set) ==
    IF resources = <<>> THEN [ok |-> TRUE, files |-> set, log |-> <<>>]
    ELSE LET r == Head(resources) IN
         IF ~Wanted(phase, r.type)
         THEN EnumerateSwallowing(Tail(resources), phase, found, set)
         ELSE LET ev == Event("addFilesToSet", phase, r.name, "")
                  rest == EnumerateSwallowing(Tail(resources), phase, found,
                                              SetAddAll(set, found[r.name].files))
              IN [rest EXCEPT !.log = <<ev>> \o rest.log]

\* The loop `for (const name in resources) if (...) await addFilesToSet`:
\* the set filled so far, whether an enumerator threw, and the events.
RECURSIVE Enumerate(_, _, _, _)
Enumerate(resources, phase, found, set) ==
    IF resources = <<>> THEN [ok |-> TRUE, files |-> set, log |-> <<>>]
    ELSE LET r == Head(resources) IN
         IF ~Wanted(phase, r.type) THEN Enumerate(Tail(resources), phase, found, set)
         ELSE LET ev == Event("addFilesToSet", phase, r.name, "") IN
              IF ~found[r.name].ok THEN [ok |-> FALSE, files |-> set, log |-> <<ev>>]
              ELSE LET rest == Enumerate(Tail(resources), phase, found,
                                         SetAddAll(set, found[r.name].files))
                   IN [rest EXCEPT !.log = <<ev>> \o rest.log]

\* The state of a generator: where it is suspended, the resources it read
\* on its first resumption, the whole-file set and the files of it still to
\* emit, what it has yielded, and what it has done.
\* A bug: the items of the assembly before are kept.
\* While a next() is pending, busy holds and goal is the generator as that
\* next() will leave it.
GeneratorKeepingItems ==
    [pc |-> "start", resources |-> <<>>, wholeFiles |-> <<>>, todo |-> <<>>,
     yielded |-> IF asm.pc = "idle" THEN <<>> ELSE asm.yielded, log |-> <<>>,
     busy |-> FALSE, goal |-> <<>>]

NewGenerator ==
    [pc |-> "start", resources |-> <<>>, wholeFiles |-> <<>>, todo |-> <<>>,
     yielded |-> <<>>, log |-> <<>>, busy |-> FALSE, goal |-> <<>>]

\* A bug: the item overtakes the items yielded before it.
YieldInFront(g, pc, item, events) ==
    [g EXCEPT !.pc = pc, !.yielded = <<item>> \o @,
              !.log = @ \o events \o <<Event("yield", pc, <<>>, "")>>]

Yield(g, pc, item, events) ==
    [g EXCEPT !.pc = pc, !.yielded = Append(@, item),
              !.log = @ \o events \o <<Event("yield", pc, <<>>, "")>>]

Throw(g, events) == [g EXCEPT !.pc = "failed", !.log = @ \o events]

\* A bug: a file that cannot be read is passed over.
RECURSIVE WholeFileStepSkipping(_, _)
WholeFileStepSkipping(g, files) ==
    IF g.todo = <<>> THEN [g EXCEPT !.pc = "done"]
    ELSE LET file == Head(g.todo)
             content == files[file]
             read == <<Event("readTextFile", "wholeFile", <<>>, file)>>
         IN IF content = ReadError
            THEN WholeFileStepSkipping([g EXCEPT !.todo = Tail(@), !.log = @ \o read], files)
            ELSE Yield([g EXCEPT !.todo = Tail(@)], "wholeFile",
                       Item(<<WholeFilePrefix, file, "\n", content>>), read)

\* A bug: the read of the file after this one is started before this
\* file's item is yielded.
WholeFileStepPrefetching(g, files) ==
    IF g.todo = <<>> THEN [g EXCEPT !.pc = "done"]
    ELSE LET file == Head(g.todo)
             content == files[file]
             read == <<Event("readTextFile", "wholeFile", <<>>, file)>>
             ahead == IF Len(g.todo) > 1
                      THEN <<Event("readTextFile", "wholeFile", <<>>, g.todo[2])>>
                      ELSE <<>>
         IN IF content = ReadError THEN Throw(g, read)
            ELSE Yield([g EXCEPT !.todo = Tail(@)], "wholeFile",
                       Item(<<WholeFilePrefix, file, "\n", content>>), read \o ahead)

\* The whole-file loop from the next file on: read it and yield it, or
\* return when no file is left.
WholeFileStep(g, files) ==
    IF g.todo = <<>> THEN [g EXCEPT !.pc = "done"]
    ELSE LET file == Head(g.todo)
             content == files[file]
             read == <<Event("readTextFile", "wholeFile", <<>>, file)>>
         IN IF content = ReadError THEN Throw(g, read)
            ELSE Yield([g EXCEPT !.todo = Tail(@)], "wholeFile",
                       Item(<<WholeFilePrefix, file, "\n", content>>), read)

\* A bug: the whole files are emitted in sorted order.
WholeFilePhaseSorted(g, found, files) ==
    LET e == Enumerate(g.resources, "wholeFile", found, <<>>) IN
    IF ~e.ok THEN Throw(g, e.log)
    ELSE WholeFileStep([g EXCEPT !.wholeFiles = Sort(e.files), !.todo = Sort(e.files),
                                 !.log = @ \o e.log], files)

\* A bug: every whole file is read before the first item is yielded.
WholeFilePhaseReadingAhead(g, found, files) ==
    LET e == Enumerate(g.resources, "wholeFile", found, <<>>)
        reads == [i \in DOMAIN e.files |-> Event("readTextFile", "wholeFile", <<>>, e.files[i])]
    IN IF ~e.ok THEN Throw(g, e.log)
       ELSE WholeFileStep([g EXCEPT !.wholeFiles = e.files, !.todo = e.files,
                                    !.log = @ \o e.log \o reads], files)

WholeFilePhase(g, found, files) ==
    LET e == Enumerate(g.resources, "wholeFile", found, <<>>) IN
    IF ~e.ok THEN Throw(g, e.log)
    ELSE WholeFileStep([g EXCEPT !.wholeFiles = e.files, !.todo = e.files,
                                 !.log = @ \o e.log], files)

\* A bug: the synthesizer is called whatever the union holds.
RepoMapPhaseAlwaysCalls(g, found, files, report) ==
    LET e == Enumerate(g.resources, "repoMap", found, <<>>) IN
    IF ~e.ok THEN Throw(g, e.log)
    ELSE LET repoMap == GenerateRepoMap(e.files, files, report) IN
         IF repoMap.threw THEN Throw(g, e.log \o repoMap.log)
         ELSE IF repoMap.present /\ repoMap.text # <<>>
         THEN Yield(g, "repoMap", Item(repoMap.text), e.log \o repoMap.log)
         ELSE WholeFilePhase([g EXCEPT !.log = @ \o e.log \o repoMap.log], found, files)

RepoMapPhase(g, found, files, report) ==
    LET e == Enumerate(g.resources, "repoMap", found, <<>>) IN
    IF ~e.ok THEN Throw(g, e.log)
    ELSE IF Len(e.files) > 0
    THEN LET repoMap == GenerateRepoMap(e.files, files, report) IN
         IF repoMap.threw THEN Throw(g, e.log \o repoMap.log)
         ELSE IF repoMap.present /\ repoMap.text # <<>>
         THEN Yield(g, "repoMap", Item(repoMap.text), e.log \o repoMap.log)
         ELSE WholeFilePhase([g EXCEPT !.log = @ \o e.log \o repoMap.log], found, files)
    ELSE WholeFilePhase([g EXCEPT !.log = @ \o e.log], found, files)

TreePhase(g, found, files, report) ==
    LET e == Enumerate(g.resources, "tree", found, <<>>) IN
    IF ~e.ok THEN Throw(g, e.log)
    ELSE IF Len(e.files) > 0
    THEN Yield(g, "tree",
               Item(<<TreeHeader, "\n">> \o Join([i \in DOMAIN Sort(e.files) |-> <<Sort(e.files)[i]>>], "\n")),
               e.log)
    ELSE RepoMapPhase([g EXCEPT !.log = @ \o e.log], found, files, report)

\* A bug: the enabled resources are looked up again at every resumption.
ResumeRereading(g, set, reg, found, files, report) ==
    IF ~(Range(set) \subseteq RegisteredNames(reg)) THEN Throw(g, <<>>)
    ELSE LET h == [g EXCEPT !.resources = GetEnabledResources(set, reg)] IN
         CASE g.pc = "start" -> TreePhase(h, found, files, report)
           [] g.pc = "tree" -> RepoMapPhase(h, found, files, report)
           [] g.pc = "repoMap" -> WholeFilePhase(h, found, files)
           [] g.pc = "wholeFile" -> WholeFileStep(g, files)
           [] OTHER -> g

\* One next() on the generator, from the call to the settling of its
\* promise: it runs to its next yield, to its return or to the exception
\* that ends it.
Resume(g, set, reg, found, files, report) ==
    CASE g.pc = "start" ->
           IF Range(set) \subseteq RegisteredNames(reg)
           THEN TreePhase([g EXCEPT !.resources = GetEnabledResources(set, reg)],
                          found, files, report)
           ELSE Throw(g, <<>>)
      [] g.pc = "tree" -> RepoMapPhase(g, found, files, report)
      [] g.pc = "repoMap" -> WholeFilePhase(g, found, files)
      [] g.pc = "wholeFile" -> WholeFileStep(g, files)
      [] OTHER -> g

\* The chat service asks for the context items of agent "s1".
StartAssembly ==
    /\ asm.pc \in {"idle", "done", "failed"}
    /\ "s1" \in attached
    /\ asm' = NewGenerator
    /\ UNCHANGED <<config, registry, attached, enabled, snapshot, matched, fs,
                   reporter, call, display, pending>>

\* The consumer pulls the next item: next() is called and the generator
\* runs to its first await.  On the first next() the enabled resources are
\* read before anything is awaited; nothing the generator reads later can
\* change, so what this next() will do is settled here (goal), and the
\* turns that follow make its calls one by one.  Resumed inside the `for
\* await` over the whole files, the generator awaits the next file before
\* it reads it: no call is made in the turn of the next() itself.
Pull ==
    /\ asm.pc \in {"start", "tree", "repoMap", "wholeFile"}
    /\ ~asm.busy
    /\ LET goal == Resume(asm, enabled["s1"], registry, matched, fs, reporter) IN
         asm' = [asm EXCEPT !.busy = TRUE, !.goal = goal,
                            !.resources = goal.resources,
                            !.log = IF asm.pc = "wholeFile" THEN asm.log
                                    ELSE UpToNextAwait(asm.log, goal.log)]
    /\ UNCHANGED <<config, registry, attached, enabled, snapshot, matched, fs,
                   reporter, call, display, pending>>

\* What the pending next() awaits completes: the generator goes on to its
\* next await, or it yields, returns or throws and the next() settles.
PullTurn ==
    /\ asm.busy
    /\ asm' = IF NextAwait(asm.log, asm.goal.log) = 0 THEN asm.goal
              ELSE [asm EXCEPT !.log = UpToNextAwait(asm.log, asm.goal.log)]
    /\ UNCHANGED <<config, registry, attached, enabled, snapshot, matched, fs,
                   reporter, call, display, pending>>

----------------------------------------------------------------------------
(* commands/codebase: the /codebase chat command *)

\* One thing written to the agent: the channel, the text, and the resource
\* names listed after the text (if any).
Output(channel, text, names) == [channel |-> channel, text |-> text, names |-> names]

\* The command ended with an exception.
Exception == Output("exception", <<>>, <<>>)

NoRepoMapResources ==
    "No RepoMap resources are currently enabled. Enable a RepoMap resource first."

NoRepoMapFound ==
    "No repository map found. Ensure RepoMap resources are configured and enabled."

RepoMapHeading == "Repository map:\n"

CurrentlyEnabled == "Currently enabled codebase resources: "

\* What a run of showRepoMap writes, and the calls it awaits on the way.
Shown(written, log) == [display |-> written, log |-> log]

\* A bug: the map is shown even when generateRepoMap returned null.
ShowRepoMapAlways(set, reg, found, files, report) ==
    IF ~(Range(set) \subseteq RegisteredNames(reg)) THEN Shown(<<Exception>>, <<>>)
    ELSE LET repoMaps == SelectSeq(GetEnabledResources(set, reg),
                                   LAMBDA r : r.type = "repoMap")
             e == Enumerate(repoMaps, "repoMap", found, <<>>)
             repoMap == GenerateRepoMap(e.files, files, report)
         IN IF ~e.ok THEN Shown(<<Exception>>, e.log)
            ELSE IF repoMap.threw THEN Shown(<<Exception>>, e.log \o repoMap.log)
            ELSE Shown(<<Output("chatOutput", <<RepoMapHeading>>, <<>>),
                         Output("infoMessage", repoMap.text, <<>>)>>,
                       e.log \o repoMap.log)

\* showRepoMap, from the enabled resources it reads when it is called:
\* what it writes when it ends, and the calls it awaits before that.
ShowRepoMap(set, reg, found, files, report) ==
    IF ~(Range(set) \subseteq RegisteredNames(reg)) THEN Shown(<<Exception>>, <<>>)
    ELSE LET repoMaps == SelectSeq(GetEnabledResources(set, reg),
                                   LAMBDA r : r.type = "repoMap")
         IN IF Len(repoMaps) = 0
            THEN Shown(<<Output("infoMessage", <<NoRepoMapResources>>, <<>>)>>, <<>>)
            ELSE LET e == Enumerate(repoMaps, "repoMap", found, <<>>) IN
                 IF ~e.ok THEN Shown(<<Exception>>, e.log)
                 ELSE IF Len(e.files) > 0
                 THEN LET repoMap == GenerateRepoMap(e.files, files, report) IN
                      IF repoMap.threw THEN Shown(<<Exception>>, e.log \o repoMap.log)
                      ELSE IF repoMap.present /\ repoMap.text # <<>>
                      THEN Shown(<<Output("chatOutput", <<RepoMapHeading>>, <<>>),
                                   Output("infoMessage", repoMap.text, <<>>)>>,
                                 e.log \o repoMap.log)
                      ELSE Shown(<<Output("infoMessage", <<NoRepoMapFound>>, <<>>)>>,
                                 e.log \o repoMap.log)
                 ELSE Shown(<<Output("infoMessage", <<NoRepoMapFound>>, <<>>)>>, e.log)

\* enableResources, disableResources, setResources: the service call and
\* the line that lists the set it returned.
Changed(r) ==
    IF r.ok THEN [set |-> r.set, display |-> <<Output("infoMessage", <<CurrentlyEnabled>>, r.set)>>]
    ELSE [set |-> r.set, display |-> <<Exception>>]

ListResources(set) ==
    IF Len(set) = 0
    THEN <<Output("infoMessage", <<"No codebase resources are currently enabled.">>, <<>>)>>
    ELSE <<Output("infoMessage", <<"Enabled codebase resources:", "\n">>, set)>>

\* getAvailableResources: the registered names, in registration order.
GetAvailableResources(reg) == NamesOf(reg)

\* The names in the order of a.localeCompare(b).
SortedNames == << <<"other", "baz">>, <<"src">>, <<"src", "foo">> >>

SortNames(names) == SelectSeq(SortedNames, LAMBDA n : n \in Range(names))

\* A node of the selection tree; a leaf has no children property.
Node(name, value, folder, children) ==
    [name |-> name, value |-> value, folder |-> folder, children |-> children]

\* The inner loop of buildResourceTree from segment i on: the last segment
\* is pushed as a leaf whose value is the resource name, a segment before
\* it descends into the first folder of that name, made if there is none
\* with the value `<segments up to it>/*`.
RECURSIVE InsertNode(_, _, _)
InsertNode(leaf, segments, i) ==
    IF i = Len(segments)
    THEN Append(leaf, Node(segments[i], segments, FALSE, <<>>))
    ELSE LET at == {k \in DOMAIN leaf : leaf[k].name = segments[i] /\ leaf[k].folder} IN
         IF at = {}
         THEN Append(leaf, Node(segments[i], SubSeq(segments, 1, i) \o <<"*">>, TRUE,
                                InsertNode(<<>>, segments, i + 1)))
         ELSE LET k == CHOOSE k \in at : \A j \in at : k <= j IN
              [leaf EXCEPT ![k].children = InsertNode(@, segments, i + 1)]

RECURSIVE BuildResourceTree(_)
BuildResourceTree(resourceNames) ==
    IF resourceNames = <<>> THEN <<>>
    ELSE InsertNode(BuildResourceTree(SubSeq(resourceNames, 1, Len(resourceNames) - 1)),
                    resourceNames[Len(resourceNames)], 1)

\* The values of the nodes of a tree: what a selection can hold.
RECURSIVE TreeValues(_)
TreeValues(children) ==
    UNION {{children[k].value} \cup TreeValues(children[k].children) : k \in DOMAIN children}

\* What the user answers: null (cancelled) or the values chosen.
Answer(cancelled, chosen) == [cancelled |-> cancelled, chosen |-> chosen]

\* A bug: an empty selection is applied too and empties the set.
SelectResourcesAlways(answer, set, reg) ==
    IF ~answer.cancelled
    THEN Changed(SetEnabledResources(answer.chosen, reg, set))
    ELSE [set |-> set, display |-> <<>>]

\* selectResources after the answer: a selection that is not empty is
\* handed to setEnabledResources, otherwise nothing is done or written.
SelectResources(answer, set, reg) ==
    IF ~answer.cancelled /\ Len(answer.chosen) > 0
    THEN Changed(SetEnabledResources(answer.chosen, reg, set))
    ELSE [set |-> set, display |-> <<>>]

\* The subcommands the router knows; select has an action of its own,
\* Select, because it takes the user's answer.
RouterKeys == {"select", "enable", "disable", "set", "list", "show repo"}

\* execute: the router runs the handler of the subcommand; for a word it
\* does not know no handler runs.  The result is the enabled set and what
\* is written when the handler has ended.
Execute(action, names, set, reg, found, files, report) ==
    CASE action = "enable" -> Changed(EnableResources(names, reg, set))
      [] action = "disable" -> Changed(DisableResources(names, reg, set))
      [] action = "set" -> Changed(SetEnabledResources(names, reg, set))
      [] action = "list" -> [set |-> set, display |-> ListResources(set)]
      [] action = "show repo" ->
           [set |-> set, display |-> ShowRepoMap(set, reg, found, files, report).display]
      [] OTHER -> [set |-> set, display |-> <<Output("errorMessage", <<"unknown subcommand">>, <<>>)>>]

\* The places of a run at which it returns to the event loop.
AwaitsOf(log) == {k \in DOMAIN log : ReturnsAfter(log, k)}

\* The user of agent "s1" enters /codebase <action> <names>: the handler
\* runs to its end, or, if it is showRepoMap with a call to await, to its
\* first await; it has read the enabled resources by then, and nothing it
\* reads later can change, so what it will write is settled here.
Command(action, names) ==
    /\ "s1" \in attached
    /\ action # "select"
    /\ action = "show repo" => ~pending.show.open /\ ~pending.select.open
    /\ LET done == Execute(action, names, enabled["s1"], registry, matched, fs, reporter)
           awaits == IF action = "show repo"
                     THEN Cardinality(AwaitsOf(ShowRepoMap(enabled["s1"], registry, matched,
                                                           fs, reporter).log))
                     ELSE 0
       IN IF awaits = 0
          THEN /\ enabled' = [enabled EXCEPT !["s1"] = done.set]
               /\ display' = done.display
               /\ UNCHANGED pending
          ELSE /\ pending' = [pending EXCEPT !.show = [open |-> TRUE, left |-> awaits,
                                                       display |-> done.display,
                                                       set |-> enabled["s1"]]]
               /\ UNCHANGED <<enabled, display>>
    /\ UNCHANGED <<config, registry, attached, snapshot, matched, fs, asm, reporter, call>>

\* What the suspended showRepoMap awaits completes: the handler goes on to
\* its next await, or it writes what it has to write and ends.
ShowRepoMapTurn ==
    /\ pending.show.open
    /\ IF pending.show.left > 1
       THEN /\ pending' = [pending EXCEPT !.show.left = @ - 1]
            /\ UNCHANGED display
       ELSE /\ pending' = [pending EXCEPT !.show = NoShow]
            /\ display' = pending.show.display
    /\ UNCHANGED <<config, registry, attached, enabled, snapshot, matched, fs, asm,
                   reporter, call>>

\* The user of agent "s1" enters /codebase select: selectResources reads
\* the registered names and the enabled set, builds the tree from the
\* sorted names and awaits the user's answer.
AskHuman ==
    /\ "s1" \in attached
    /\ ~pending.select.open /\ ~pending.show.open
    /\ pending' = [pending EXCEPT !.select =
                     [open |-> TRUE,
                      values |-> TreeValues(BuildResourceTree(
                                   SortNames(GetAvailableResources(registry)))),
                      initial |-> enabled["s1"]]]
    /\ UNCHANGED <<config, registry, attached, enabled, snapshot, matched, fs, asm,
                   reporter, call, display>>

\* The user answers the open question with entries of its tree, and
\* selectResources goes on with the enabled set as it is by now.
Select(answer) ==
    /\ pending.select.open
    /\ Range(answer.chosen) \subseteq pending.select.values
    /\ LET done == SelectResources(answer, enabled["s1"], registry) IN
         /\ enabled' = [enabled EXCEPT !["s1"] = done.set]
         /\ display' = done.display
    /\ pending' = [pending EXCEPT !.select = NoQuestion]
    /\ UNCHANGED <<config, registry, attached, snapshot, matched, fs, asm, reporter, call>>

----------------------------------------------------------------------------
(* Assemblies over registries of every kind assignment *)

Found(fileList) == [ok |-> TRUE, files |-> fileList]

EnumeratorFails == [ok |-> FALSE, files |-> <<>>]

\* What the enumerator of each resource finds: overlapping lists in
\* unsorted insertion order, a resource that matches nothing, nothing at
\* all, and an enumerator that throws.
Layouts ==
    { (<<"src">> :> Found(<<"b.py", "a.ts">>)
         @@ <<"src", "foo">> :> Found(<<"readme.md", "a.ts">>)
         @@ <<"other", "baz">> :> Found(<<"readme.md", "b.py">>)),
      (<<"src">> :> Found(<<>>)
         @@ <<"src", "foo">> :> Found(<<"b.py", "a.ts">>)
         @@ <<"other", "baz">> :> Found(<<"readme.md">>)),
      [n \in Names |-> Found(<<>>)],
      (<<"src">> :> Found(<<"b.py", "a.ts">>)
         @@ <<"src", "foo">> :> EnumeratorFails
         @@ <<"other", "baz">> :> Found(<<"readme.md", "b.py">>)) }

\* The contents of the files: all readable code and prose; files that
\* yield no section; an unreadable file among readable ones, twice.
FileSystems ==
    { ("a.ts" :> CodeTwo @@ "b.py" :> CodeBlank @@ "readme.md" :> Prose),
      ("a.ts" :> CodeNone @@ "b.py" :> Empty @@ "readme.md" :> Prose),
      ("a.ts" :> CodeBad @@ "b.py" :> CodeTwo @@ "readme.md" :> ReadError),
      ("a.ts" :> ReadError @@ "b.py" :> CodeBad @@ "readme.md" :> Prose) }

\* A registry with the three names installed, each of some kind.
Registries ==
    {[i \in 1..3 |-> [name |-> DefaultConfig[i].name, type |-> k[i]]] : k \in [1..3 -> Kinds]}

AsmInit ==
    /\ config = DefaultConfig
    /\ registry \in Registries
    /\ attached = {"s1"}
    /\ enabled \in {[s \in Sessions |-> IF s = "s1" THEN set ELSE <<>>] : set \in OrderedSets(Names)}
    /\ snapshot = NoSnapshot
    /\ lastOp = NoOp
    /\ matched \in Layouts
    /\ fs \in FileSystems
    /\ asm = IdleAsm
    /\ reporter \in Reporting
    /\ call = NoCalls
    /\ display = <<>>
    /\ pending = NothingPending

\* How an assembly ended and what it had yielded, for the observer.
Assembled(g) ==
    [op |-> "assembled", s |-> "s1", names |-> <<>>, ok |-> g.pc = "done",
     before |-> <<>>, yielded |-> g.yielded]

AsmNext ==
    \/ /\ StartAssembly
       /\ lastOp' = IF asm.pc = "idle" THEN lastOp ELSE Assembled(asm)
    \/ Pull /\ UNCHANGED lastOp
    \/ PullTurn /\ UNCHANGED lastOp

AsmSpec == AsmInit /\ [][AsmNext]_vars

----------------------------------------------------------------------------
(* Chat commands over the same registries, enabled sets and files *)

Actions == {"enable", "disable", "set", "list", "show repo", "clear"}

CommandLists == {<<>>, << <<"src", "*">> >>, << <<"ghost">> >>}

\* The kinds of the three resources: those of the README's example, and
\* a registry with two RepoMap resources.
CmdKinds ==
    { <<"fileTree", "repoMap", "wholeFile">>,
      <<"repoMap", "repoMap", "wholeFile">> }

CmdInit ==
    /\ AsmInit
    /\ [i \in 1..3 |-> registry[i].type] \in CmdKinds

\* The node values of the selection trees and the answers a user gives:
\* a cancel, no entry, one entry, or two entries, folders among them.
SelectValues == Names \cup {<<"src", "*">>, <<"other", "*">>}

Answers ==
    {Answer(TRUE, <<>>)}
    \cup {Answer(FALSE, c) : c \in SeqsUpTo(SelectValues, 1)}
    \cup {Answer(FALSE, c) : c \in { << <<"src", "*">>, <<"other", "baz">> >>,
                                      << <<"src", "foo">>, <<"src", "*">> >>,
                                      << <<"other", "*">>, <<"src">> >> }}

\* The observer names a command when it has ended, with the enabled set
\* the command found: for showRepoMap the set it read when it was called.
CmdNext ==
    \/ \E action \in Actions :
         \E names \in (IF action \in {"enable", "disable", "set"} THEN CommandLists ELSE {<<>>}) :
           /\ Command(action, names)
           /\ lastOp' = Op(IF pending'.show.open /\ ~pending.show.open
                           THEN "show repo called" ELSE action,
                           "s1", names,
                           Execute(action, names, enabled["s1"], registry, matched, fs,
                                   reporter).display # <<Exception>>,
                           enabled["s1"])
    \/ /\ ShowRepoMapTurn
       /\ lastOp' = IF pending'.show.open THEN lastOp
                    ELSE Op("show repo", "s1", <<>>, display' # <<Exception>>,
                            pending.show.set)
    \/ /\ AskHuman
       /\ lastOp' = Op("select called", "s1", <<>>, TRUE, enabled["s1"])
    \/ \E answer \in Answers :
         /\ Select(answer)
         /\ lastOp' = Op("select", "s1", answer.chosen, ~answer.cancelled, enabled["s1"])

CmdSpec == CmdInit /\ [][CmdNext]_vars

----------------------------------------------------------------------------
(* An assembly with the agent's enabled set changed between the pulls *)

\* The observer of this specification: the call the step made and the
\* enabled set as it was when the running assembly was first resumed.
Watch(op, first) == [op |-> op, first |-> first]

MixLists == {<<>>} \cup {<<n>> : n \in Names}

\* The three resources of DefaultConfig, files that can all be read, any enabled
\* set.
MixInit ==
    /\ config = DefaultConfig
    /\ registry = DefaultConfig
    /\ attached = {"s1"}
    /\ enabled \in {[s \in Sessions |-> IF s = "s1" THEN set ELSE <<>>] : set \in OrderedSets(Names)}
    /\ snapshot = NoSnapshot
    /\ lastOp = Watch("none", <<>>)
    /\ matched = (<<"src">> :> Found(<<"b.py", "a.ts">>)
                    @@ <<"src", "foo">> :> Found(<<"readme.md", "a.ts">>)
                    @@ <<"other", "baz">> :> Found(<<"readme.md", "b.py">>))
    /\ fs = ("a.ts" :> CodeTwo @@ "b.py" :> CodeBlank @@ "readme.md" :> Prose)
    /\ asm = IdleAsm
    /\ reporter = "works"
    /\ call = NoCalls
    /\ display = <<>>
    /\ pending = NothingPending

\* The consumer starts assemblies and pulls; between any two steps of the
\* generator, also while a pull is pending, a tool or a command of the
\* agent may change the enabled set.
MixNext ==
    \/ StartAssembly /\ lastOp' = Watch("start", lastOp.first)
    \/ /\ Pull
       /\ lastOp' = Watch("pull", IF asm.pc = "start" THEN enabled["s1"] ELSE lastOp.first)
    \/ PullTurn /\ lastOp' = Watch("turn", lastOp.first)
    \/ \E names \in MixLists :
         \/ Enable("s1", names) /\ lastOp' = Watch("enable", lastOp.first)
         \/ Disable("s1", names) /\ lastOp' = Watch("disable", lastOp.first)
         \/ SetEnabled("s1", names) /\ lastOp' = Watch("set", lastOp.first)

MixSpec == MixInit /\ [][MixNext]_vars

----------------------------------------------------------------------------
(* generateRepoMap over every file system of the three files *)

AllFileSystems == [Files -> Contents \cup {ReadError}]

RepoMapInit ==
    /\ config = DefaultConfig
    /\ registry = <<>>
    /\ attached = {}
    /\ enabled = [s \in Sessions |-> <<>>]
    /\ snapshot = NoSnapshot
    /\ lastOp = NoOp
    /\ matched = [n \in Names |-> <<>>]
    /\ fs \in AllFileSystems
    /\ asm = IdleAsm
    /\ reporter \in Reporting
    /\ call = NoCalls
    /\ display = <<>>
    /\ pending = NothingPending

\* The file lists of the second caller.
BesideLists == {<<"readme.md">>, <<"a.ts">>}

\* Two callers, each making its calls one after the other; a call of one
\* may be pending while the other calls.
RepoMapNext ==
    \/ \E fileList \in OrderedSets(Files) :
         CallGenerateRepoMap("A", fileList) /\ UNCHANGED lastOp
    \/ \E fileList \in BesideLists :
         CallGenerateRepoMap("B", fileList) /\ UNCHANGED lastOp
    \/ \E c \in Calls : GenerateRepoMapTurn(c) /\ UNCHANGED lastOp

RepoMapSpec == RepoMapInit /\ [][RepoMapNext]_vars

----------------------------------------------------------------------------
(* Properties of enable / disable / set, checked under Spec *)

Mutators == {"enable", "disable", "set"}

ResolvedSet(names, reg) == UNION {Range(GetItemNamesLike(names[i], reg)) : i \in DOMAIN names}

\* C1: a call of enable, disable or set in which some name or pattern does
\* not resolve fails, and the agent's enabled set is what it was before the
\* call, also when other names of the list do resolve.
C1_FailureIsAtomic ==
    (/\ lastOp.op \in Mutators
     /\ \E i \in DOMAIN lastOp.names : GetItemNamesLike(lastOp.names[i], registry) = <<>>)
    => /\ ~lastOp.ok
       /\ enabled[lastOp.s] = lastOp.before

\* An enable of <<known, unknown>> has failed, and the known name was not
\* enabled before.
C1_Witness ==
    /\ lastOp.op = "enable"
    /\ ~lastOp.ok
    /\ Len(lastOp.names) = 2
    /\ Resolves(lastOp.names[1], registry)
    /\ ~Resolves(lastOp.names[2], registry)
    /\ ResolvedSet(<<lastOp.names[1]>>, registry) \cap Range(lastOp.before) = {}

\* C2: after a successful set(B) the enabled set holds exactly the names B
\* resolves to, whatever it held before; set of the empty list empties it.
C2_SetReplaces ==
    (lastOp.op = "set" /\ lastOp.ok)
    => /\ Range(enabled[lastOp.s]) = ResolvedSet(lastOp.names, registry)
       /\ Len(enabled[lastOp.s]) = Cardinality(ResolvedSet(lastOp.names, registry))
       /\ lastOp.names = <<>> => enabled[lastOp.s] = <<>>

\* A set has succeeded that dropped a name enabled before it.
C2_Witness ==
    /\ lastOp.op = "set"
    /\ lastOp.ok
    /\ lastOp.names # <<>>
    /\ Range(lastOp.before) \ ResolvedSet(lastOp.names, registry) # {}

\* C4: a successful enable(X) right after a successful enable(X) changes
\* nothing, and a successful enable of names that are all enabled already
\* changes nothing.
C4_EnableIdempotent ==
    [][ (lastOp'.op = "enable" /\ lastOp'.ok)
        => /\ (lastOp.op = "enable" /\ lastOp.ok /\ lastOp.names = lastOp'.names)
                => enabled' = enabled
           /\ ResolvedSet(lastOp'.names, registry) \subseteq Range(enabled[lastOp'.s])
                => enabled' = enabled ]_vars

\* An enable of names that were all enabled has succeeded and left the set
\* as it was.
C4_Witness ==
    /\ lastOp.op = "enable"
    /\ lastOp.ok
    /\ lastOp.names # <<>>
    /\ ResolvedSet(lastOp.names, registry) \subseteq Range(lastOp.before)
    /\ enabled[lastOp.s] = lastOp.before

\* C5: when enable(A) succeeded on an empty enabled set, a disable(A) that
\* follows it leaves the enabled set empty.
C5_EnableThenDisable ==
    [][ (/\ lastOp.op = "enable" /\ lastOp.ok /\ lastOp.before = <<>>
         /\ lastOp'.op = "disable" /\ lastOp'.names = lastOp.names)
        => (lastOp'.ok /\ enabled'[lastOp'.s] = <<>>) ]_vars

\* A disable(A) has emptied a set that held exactly what enable(A) puts
\* into an empty set, A holding a wildcard pattern.
C5_Witness ==
    /\ lastOp.op = "disable"
    /\ lastOp.ok
    /\ \E i \in DOMAIN lastOp.names : IsWildcard(lastOp.names[i])
    /\ lastOp.before = NewSet(Flat(lastOp.names, registry))
    /\ lastOp.before # <<>>
    /\ enabled[lastOp.s] = <<>>

----------------------------------------------------------------------------
(* The enabled names and the registry, checked under LifeSpec *)

\* C3: after any sequence of attach, enable, disable, setEnabled, fork and
\* deserialize, every name in a session's enabled set is a registered name.
C3_EnabledAreRegistered ==
    \A s \in attached : Range(enabled[s]) \subseteq RegisteredNames(registry)

----------------------------------------------------------------------------
(* Pattern resolution, checked under Spec *)

ProbePatterns == Patterns \cup {<<"src">>, <<"other", "*">>, <<"src", "foo", "*">>}

\* The names the specification lets a pattern stand for.
Denoted(pattern, reg) ==
    IF Len(pattern) >= 2 /\ pattern[Len(pattern)] = "*"
    THEN {n \in RegisteredNames(reg) :
            \/ n = SubSeq(pattern, 1, Len(pattern) - 1)
            \/ /\ Len(n) > Len(pattern) - 1
               /\ \A i \in 1..(Len(pattern) - 1) : n[i] = pattern[i]}
    ELSE {n \in RegisteredNames(reg) : n = pattern}

\* C6: p/* resolves to exactly the registered names that equal p or are
\* nested under p, a pattern without the suffix resolves to itself iff it
\* is registered, and the resolution fails iff it would be empty; an enable
\* of one pattern succeeds exactly then and adds exactly those names.
C6_PatternResolution ==
    /\ \A pattern \in ProbePatterns :
         /\ Range(GetItemNamesLike(pattern, registry)) = Denoted(pattern, registry)
         /\ Resolves(pattern, registry) <=> Denoted(pattern, registry) # {}
    /\ (lastOp.op = "enable" /\ Len(lastOp.names) = 1) =>
         /\ lastOp.ok <=> Denoted(lastOp.names[1], registry) # {}
         /\ lastOp.ok =>
              Range(enabled[lastOp.s]) =
                Range(lastOp.before) \cup Denoted(lastOp.names[1], registry)

\* src/* was enabled on an empty set with src, src/foo and other/baz
\* registered: src and src/foo are enabled, other/baz is not.
C6_Witness ==
    /\ lastOp.op = "enable" /\ lastOp.ok
    /\ lastOp.names = << <<"src", "*">> >>
    /\ lastOp.before = <<>>
    /\ RegisteredNames(registry) = Names
    /\ Range(enabled[lastOp.s]) = {<<"src">>, <<"src", "foo">>}

----------------------------------------------------------------------------
(* The three phases of an assembly, checked under AsmSpec *)

Started == asm.pc \notin {"idle", "start"}

TypeOf(name) == registry[CHOOSE i \in DOMAIN registry : registry[i].name = name].type

\* The enabled names whose resource is of one of the kinds, in the order
\* of the enabled set.
EnabledOfKind(kinds) == SelectSeq(enabled["s1"], LAMBDA n : TypeOf(n) \in kinds)

\* The union of their file sets, as a set and in insertion order.
UnionOf(names) == UNION {Range(matched[names[i]].files) : i \in DOMAIN names}

RECURSIVE UnionInOrder(_)
UnionInOrder(names) ==
    IF names = <<>> THEN <<>>
    ELSE LET front == UnionInOrder(SubSeq(names, 1, Len(names) - 1))
             last == matched[names[Len(names)]].files
         IN front \o SelectSeq(last, LAMBDA f : f \notin Range(front))

EnumeratorsWork(names) == \A i \in DOMAIN names : matched[names[i]].ok

TreeNames == EnabledOfKind(Kinds \ {"repoMap", "wholeFile"})
RepoMapNames == EnabledOfKind({"repoMap"})
WholeFileNames == EnabledOfKind({"wholeFile"})

IsTreeItem(item) == item.content[1] = TreeHeader
IsRepoMapItem(item) == item.content[1] = RepoMapPreamble
IsWholeFileItem(item) == ~IsTreeItem(item) /\ ~IsRepoMapItem(item)

PhaseRank(item) == IF IsTreeItem(item) THEN 1 ELSE IF IsRepoMapItem(item) THEN 2 ELSE 3

\* The place of a file in the lexicographic order.
Place(f) == CHOOSE i \in DOMAIN SortedFiles : SortedFiles[i] = f

\* C7: in every assembly the tree item (if any) comes before the repo-map
\* item (if any), both come before every whole-file item, and there is at
\* most one tree item and one repo-map item.
C7_PhaseOrder ==
    Started =>
      \A i, j \in DOMAIN asm.yielded :
         i < j => /\ PhaseRank(asm.yielded[i]) <= PhaseRank(asm.yielded[j])
                  /\ PhaseRank(asm.yielded[i]) < 3 =>
                       PhaseRank(asm.yielded[i]) < PhaseRank(asm.yielded[j])

\* An assembly has returned after a tree item, a repo-map item and two
\* whole-file items, in this order.
C7_Witness ==
    /\ asm.pc = "done"
    /\ Len(asm.yielded) = 4
    /\ [i \in 1..4 |-> PhaseRank(asm.yielded[i])] = <<1, 2, 3, 3>>

\* C8: when no enumerator of the tree phase fails, the phase emits one item
\* if the union of the files of the enabled resources that are neither
\* RepoMap nor WholeFile is non-empty and none if it is empty; the item is
\* the header line followed by every member of the union once, in
\* lexicographic order, one per line.
C8_TreePhase ==
    (Started /\ EnumeratorsWork(TreeNames)) =>
      LET items == SelectSeq(asm.yielded, IsTreeItem)
          union == UnionOf(TreeNames)
          n == Cardinality(union)
      IN /\ union = {} => items = <<>>
         /\ union # {} =>
              /\ Len(items) = 1
              /\ LET content == items[1].content IN
                 /\ Len(content) = 2 * n + 1
                 /\ content[1] = TreeHeader
                 /\ \A k \in 1..n : content[2 * k] = "\n"
                 /\ {content[2 * k + 1] : k \in 1..n} = union
                 /\ \A k \in 1..(n - 1) : Place(content[2 * k + 1]) < Place(content[2 * k + 3])

\* Two enabled tree resources both match a.ts, first found after b.py: the
\* tree item lists a.ts, b.py and readme.md, each once.
C8_Witness ==
    /\ Started
    /\ Len(TreeNames) = 2
    /\ \A i \in 1..2 : matched[TreeNames[i]].ok /\ "a.ts" \in Range(matched[TreeNames[i]].files)
    /\ matched[TreeNames[1]].files = <<"b.py", "a.ts">>
    /\ asm.yielded # <<>>
    /\ asm.yielded[1].content = <<TreeHeader, "\n", "a.ts", "\n", "b.py", "\n", "readme.md">>

\* The repo-map phase has run to its end.
RepoMapPhasePassed ==
    \/ asm.pc \in {"repoMap", "wholeFile", "done"}
    \/ asm.pc = "failed" /\ EnumeratorsWork(TreeNames) /\ EnumeratorsWork(RepoMapNames)

SynthesizerCalls == Len(SelectSeq(asm.log, LAMBDA e : e.ev = "createParserFactory"))

\* C9: the synthesizer is called only when the union of the files of the
\* enabled RepoMap resources is non-empty, and then once; the phase emits
\* one item, whose content is the synthesizer's text, iff the synthesizer
\* returned a text, and nothing otherwise.
C9_RepoMapPhase ==
    /\ Started => (SynthesizerCalls > 0 => UnionOf(RepoMapNames) # {})
    /\ RepoMapPhasePassed =>
         LET files == UnionInOrder(RepoMapNames)
             result == GenerateRepoMap(files, fs, reporter)
             items == SelectSeq(asm.yielded, IsRepoMapItem)
         IN /\ SynthesizerCalls = (IF files # <<>> THEN 1 ELSE 0)
            /\ IF files # <<>> /\ result.present
               THEN items = <<Item(result.text)>>
               ELSE items = <<>>

\* The synthesizer was called on two or more files, one of which it could
\* not process, and its text was emitted.
C9_Witness ==
    /\ RepoMapPhasePassed
    /\ Len(UnionInOrder(RepoMapNames)) >= 2
    /\ \E i \in DOMAIN asm.log : asm.log[i].ev = "errorLine"
    /\ GenerateRepoMap(UnionInOrder(RepoMapNames), fs, reporter).present
    /\ \E i \in DOMAIN asm.yielded :
         asm.yielded[i] = Item(GenerateRepoMap(UnionInOrder(RepoMapNames), fs, reporter).text)

\* The whole-file items are one per file of the union of the enabled
\* WholeFile resources' file sets, in insertion order, as far as the phase
\* has come, each made of the given lead, the path, a newline and the
\* content read.
WholeFileItemsAre(lead) ==
    (Started /\ EnumeratorsWork(WholeFileNames)) =>
      LET files == UnionInOrder(WholeFileNames)
          items == SelectSeq(asm.yielded, IsWholeFileItem)
      IN /\ Len(items) <= Len(files)
         /\ \A i \in DOMAIN items :
              items[i].content = lead \o <<files[i], "\n", fs[files[i]]>>
         /\ asm.pc = "done" => Len(items) = Len(files)

\* C10: the whole-file phase emits one item per distinct file of the union,
\* in insertion order, and the content of each is the fixed lead
\* "// Complete contents of file: ", the path, a newline and the raw content.
C10_WholeFilePhase == WholeFileItemsAre(<<WholeFilePrefix>>)

\* C10 as stated: the content is the path, a newline and the raw content.
C10_PathThenContent == WholeFileItemsAre(<<>>)

\* Two enabled WholeFile resources both match b.py; the assembly returned
\* after the items of b.py, a.ts and readme.md, in this order.
C10_Witness ==
    /\ asm.pc = "done"
    /\ Len(WholeFileNames) = 2
    /\ \A i \in 1..2 : "b.py" \in Range(matched[WholeFileNames[i]].files)
    /\ LET items == SelectSeq(asm.yielded, IsWholeFileItem) IN
       /\ Len(items) = 3
       /\ [i \in 1..3 |-> items[i].content[2]] = <<"b.py", "a.ts", "readme.md">>

----------------------------------------------------------------------------
(* Failures during an assembly, checked under AsmSpec *)

\* The phase (1 tree, 2 repo map, 3 whole files) in which an enumerator of
\* an enabled resource first throws, 4 if none does.
FailingPhase ==
    IF ~EnumeratorsWork(TreeNames) THEN 1
    ELSE IF ~EnumeratorsWork(RepoMapNames) THEN 2
    ELSE IF ~EnumeratorsWork(WholeFileNames) THEN 3
    ELSE 4

PhaseName(rank) == <<"tree", "repoMap", "wholeFile">>[rank]

LastEvent == asm.log[Len(asm.log)]

\* The assembly ended in the repo-map phase, with the exception that left
\* generateRepoMap.
SynthesizerThrew == asm.pc = "failed" /\ LastEvent.ev = "errorLine"

\* C11: when the enumerator of an enabled resource throws, the assembly
\* never gets past it: no item of that phase or of a later phase is ever
\* emitted, the assembly never returns, and when it fails the last thing
\* it did was the call of the throwing enumerator (unless the synthesizer
\* threw before a whole-file enumerator was reached).
C11_EnumeratorFailurePropagates ==
    (Started /\ FailingPhase < 4) =>
      /\ \A i \in DOMAIN asm.yielded : PhaseRank(asm.yielded[i]) < FailingPhase
      /\ asm.pc # "done"
      /\ asm.pc \in {"tree", "repoMap", "wholeFile"} =>
           asm.pc = PhaseName(PhaseRank(asm.yielded[Len(asm.yielded)]))
      /\ asm.pc = "failed" =>
           \/ /\ LastEvent.ev = "addFilesToSet"
              /\ LastEvent.phase = PhaseName(FailingPhase)
              /\ ~matched[LastEvent.name].ok
           \/ FailingPhase = 3 /\ SynthesizerThrew

\* The enumerator of a RepoMap resource threw after the tree item had been
\* emitted: the assembly failed with the tree item as its only item.
C11_Witness ==
    /\ asm.pc = "failed"
    /\ FailingPhase = 2
    /\ Len(asm.yielded) = 1
    /\ IsTreeItem(asm.yielded[1])
    /\ WholeFileNames # <<>>

\* The place in the whole-file union of the first file that cannot be
\* read, 0 if every file can.
FirstUnreadable ==
    LET files == UnionInOrder(WholeFileNames)
        bad == {i \in DOMAIN files : fs[files[i]] = ReadError}
    IN IF bad = {} THEN 0 ELSE CHOOSE i \in bad : \A j \in bad : i <= j

\* C12: when the content of a whole file cannot be read, the assembly ends
\* with that failure: the items emitted before stay emitted, and neither
\* the failing file nor any file after it gets an item.
C12_ReadFailurePropagates ==
    (Started /\ FailingPhase = 4 /\ FirstUnreadable > 0) =>
      LET files == UnionInOrder(WholeFileNames)
          items == SelectSeq(asm.yielded, IsWholeFileItem)
      IN /\ Len(items) < FirstUnreadable
         /\ \A i \in DOMAIN items : items[i].content[2] = files[i]
         /\ asm.pc # "done"
         /\ asm.pc = "failed" =>
              \/ /\ Len(items) = FirstUnreadable - 1
                 /\ LastEvent.ev = "readTextFile"
                 /\ LastEvent.file = files[FirstUnreadable]
              \/ SynthesizerThrew /\ items = <<>>

\* The second of three whole files could not be read: the assembly failed
\* after the tree item and the item of the first file.
C12_Witness ==
    /\ asm.pc = "failed"
    /\ FailingPhase = 4
    /\ FirstUnreadable = 2
    /\ Len(UnionInOrder(WholeFileNames)) = 3
    /\ Len(asm.yielded) = 2
    /\ IsTreeItem(asm.yielded[1])
    /\ IsWholeFileItem(asm.yielded[2])

----------------------------------------------------------------------------
(* generateRepoMap, checked under RepoMapSpec *)

Chunked(f) == fs[f] # ReadError /\ fs[f] # "" /\ GetLanguageFromExtension(ExtName(f)) # NoLanguage

\* Reading or chunking the file throws.
Fails(f) == fs[f] = ReadError \/ (Chunked(f) /\ ~ParseCodeAndChunk(fs[f]).ok)

ChunksFor(f) == IF Chunked(f) /\ ~Fails(f) THEN ParseCodeAndChunk(fs[f]).chunks ELSE <<>>

Occurs(part, text) ==
    \E i \in 1..(Len(text) - Len(part) + 1) : SubSeq(text, i, i + Len(part) - 1) = part

EventsOf(log, ev) == SelectSeq(log, LAMBDA e : e.ev = ev)

\* C13: a call of generateRepoMap throws only if the error reporter itself
\* threw; with a working reporter a file whose reading or chunking fails
\* contributes no section, every file of the set is still processed, the
\* section of every other file appears in the result, and when every file
\* fails the result is null.
C13_FileFailuresAreNotFatal ==
    \A c \in Calls :
    call[c].made =>
      LET files == call[c].files
          result == call[c].result
      IN /\ result.threw =>
              reporter = "throws" /\ \E i \in DOMAIN files : Fails(files[i])
         /\ reporter = "works" =>
              /\ ~result.threw
              /\ [i \in DOMAIN EventsOf(result.log, "getFile") |->
                    EventsOf(result.log, "getFile")[i].file] = files
              /\ \A i \in DOMAIN files :
                   /\ Fails(files[i]) => ~Occurs(<<files[i], ":">>, result.text)
                   /\ ChunksFor(files[i]) # <<>> =>
                        Occurs(FormatFileOutput(files[i], ChunksFor(files[i])).text,
                               result.text)
              /\ (\A i \in DOMAIN files : Fails(files[i])) => ~result.present

\* generateRepoMap was called on a.ts, which the parser rejects, then b.py:
\* the error was reported and the result holds the section of b.py alone.
C13_Witness ==
    /\ call["A"].made
    /\ reporter = "works"
    /\ call["A"].files = <<"a.ts", "b.py">>
    /\ Fails("a.ts") /\ fs["a.ts"] = CodeBad
    /\ call["A"].result.present
    /\ Occurs(<<"b.py", ":">>, call["A"].result.text)
    /\ EventsOf(call["A"].result.log, "errorLine") # <<>>

\* The sections of the files that have chunks, in the order of the files.
RECURSIVE ExpectedSections(_)
ExpectedSections(files) ==
    IF files = <<>> THEN <<>>
    ELSE (IF ChunksFor(Head(files)) # <<>>
          THEN <<FormatFileOutput(Head(files), ChunksFor(Head(files))).text>>
          ELSE <<>>) \o ExpectedSections(Tail(files))

\* C14: a call that returns yields null iff no file produced a section
\* (the empty set included) and never an empty string; otherwise it yields
\* the preamble followed by the sections in file-processing order, joined
\* by a newline.
C14_NullOrPreambleAndSections ==
    \A c \in Calls :
    (call[c].made /\ ~call[c].result.threw) =>
      LET sections == ExpectedSections(call[c].files)
          result == call[c].result
      IN /\ ~result.present <=> sections = <<>>
         /\ result.present => result.text # <<>>
         /\ result.present =>
              result.text = <<RepoMapPreamble, "\n">> \o Join(sections, "\n")

\* A call on b.py then a.ts, both with symbols, returned the preamble and
\* the two sections, that of b.py first.
C14_Witness ==
    /\ call["A"].made /\ ~call["A"].result.threw
    /\ call["A"].files = <<"b.py", "a.ts">>
    /\ Len(ExpectedSections(call["A"].files)) = 2
    /\ call["A"].result.present
    /\ call["A"].result.text[1] = RepoMapPreamble
    /\ call["A"].result.text[3] = "b.py"

\* C15: every call of generateRepoMap creates the parser factory once and
\* disposes of it once, however the call ends.
C15_FactoryReleasedOnce ==
    \A c \in Calls :
    call[c].made =>
      /\ Len(EventsOf(call[c].result.log, "createParserFactory")) = 1
      /\ Len(EventsOf(call[c].result.log, "dispose")) = 1

\* The first line of a chunk that is not blank (the empty line if it has
\* none), with surrounding whitespace stripped.
FirstNonBlankLabel(chunk) ==
    LET full == {i \in DOMAIN chunk : Trim(chunk[i]) # ""} IN
    IF full = {} THEN "" ELSE Trim(chunk[CHOOSE i \in full : \A j \in full : i <= j])

\* One line "- <label>" per label that is not blank.
RECURSIVE Bullets(_)
Bullets(labels) ==
    IF labels = <<>> THEN <<>>
    ELSE (IF Head(labels) # "" THEN <<"- ", Head(labels), "\n">> ELSE <<>>)
         \o Bullets(Tail(labels))

\* The call was made on one file that has chunks, and returned.
OneFileWithChunks(c) ==
    /\ call[c].made /\ ~call[c].result.threw
    /\ Len(call[c].files) = 1
    /\ ChunksFor(call[c].files[1]) # <<>>

\* C16: for a file with chunks the section is the header line "<path>:"
\* followed by one line "- <label>" per chunk in the chunker's order, the
\* label being the first non-blank line of the chunk with surrounding
\* whitespace stripped; a chunk contributes no line only when its label is
\* blank.  formatFileOutput takes the first line of the chunk, blank or
\* not: a chunk that starts with a blank line gets no line at all.
C16_SectionOfFirstNonBlankLines ==
    \A c \in Calls :
    OneFileWithChunks(c) =>
      LET f == call[c].files[1]
          chunks == ChunksFor(f)
      IN call[c].result.text =
           <<RepoMapPreamble, "\n", f, ":", "\n">>
           \o Bullets([i \in DOMAIN chunks |-> FirstNonBlankLabel(chunks[i])])

----------------------------------------------------------------------------
(* Assemblies one after the other, checked under AsmSpec *)

IsPrefix(a, b) == Len(a) <= Len(b) /\ SubSeq(b, 1, Len(a)) = a

Suspended == asm.pc \in {"tree", "repoMap", "wholeFile"} /\ ~asm.busy

RankOfPhase(phase) == CHOOSE r \in 1..3 : PhaseName(r) = phase

\* C18: while the generator waits for the consumer after an item, it has
\* done nothing beyond yielding that item: no enumerator of a later phase
\* has been called, the synthesizer has not been called before the
\* repo-map phase, and the whole files read are exactly those whose items
\* have been yielded.
C18_PullBased ==
    Suspended =>
      /\ LastEvent.ev = "yield" /\ LastEvent.phase = asm.pc
      /\ \A i \in DOMAIN asm.log : RankOfPhase(asm.log[i].phase) <= RankOfPhase(asm.pc)
      /\ [i \in DOMAIN EventsOf(asm.log, "readTextFile") |->
            EventsOf(asm.log, "readTextFile")[i].file]
         = [i \in DOMAIN SelectSeq(asm.yielded, IsWholeFileItem) |->
              SelectSeq(asm.yielded, IsWholeFileItem)[i].content[2]]

\* The generator waits after the item of the first of three whole files:
\* one file has been read.
C18_Witness ==
    /\ asm.pc = "wholeFile"
    /\ Len(asm.wholeFiles) = 3
    /\ Len(asm.todo) = 2
    /\ Len(EventsOf(asm.log, "readTextFile")) = 1
    /\ \A f \in Range(asm.todo) : fs[f] # ReadError

----------------------------------------------------------------------------
(* The chat command, checked under CmdSpec *)

\* What the repo-map phase of an assembly does that is first resumed in
\* the state in which the command was called: both read the enabled
\* resources at that moment, before anything is awaited.
RepoMapPhaseHere ==
    RepoMapPhase([NewGenerator EXCEPT !.resources = GetEnabledResources(lastOp.before, registry)],
                 matched, fs, reporter)

PhaseWouldEmit ==
    RepoMapPhaseHere.yielded # <<>> /\ IsRepoMapItem(RepoMapPhaseHere.yielded[1])

\* The texts written by the command other than its two notices.
TextsShown ==
    SelectSeq(display, LAMBDA o : /\ o.channel = "infoMessage"
                                  /\ o.text \notin {<<NoRepoMapResources>>, <<NoRepoMapFound>>})

\* C19: show repo writes a repository map iff the repo-map phase of an
\* assembly in the same state would emit an item, and the text written is
\* the content of that item; the state is the one the command was called
\* in, whatever changed the enabled set while its calls were awaited.
C19_ShowRepoMapIsThePhase ==
    lastOp.op = "show repo" =>
      /\ TextsShown # <<>> <=> PhaseWouldEmit
      /\ PhaseWouldEmit =>
           TextsShown = <<Output("infoMessage", RepoMapPhaseHere.yielded[1].content, <<>>)>>
      /\ display = <<Exception>> <=>
           (RepoMapPhaseHere.pc = "failed" /\ RepoMapPhaseHere.yielded = <<>>
            /\ RepoMapPhaseHere.log[Len(RepoMapPhaseHere.log)].phase = "repoMap")

\* With two RepoMap resources enabled, show repo wrote the heading and the
\* map the phase would emit from both, although both were disabled while
\* the command was awaiting its calls.
C19_Witness ==
    /\ lastOp.op = "show repo"
    /\ Len(SelectSeq(lastOp.before, LAMBDA n : TypeOf(n) = "repoMap")) = 2
    /\ RepoMapNames = <<>>
    /\ PhaseWouldEmit
    /\ Len(display) = 2
    /\ display[1].text = <<RepoMapHeading>>
    /\ display[2].text = RepoMapPhaseHere.yielded[1].content

\* C20: after /codebase clear the enabled set of the session is empty.
C20_ClearEmpties ==
    lastOp.op = "clear" => enabled["s1"] = <<>>

----------------------------------------------------------------------------
(* The phase of a resource, checked under AsmSpec *)

PhaseOfKind(type) ==
    IF type = "repoMap" THEN "repoMap" ELSE IF type = "wholeFile" THEN "wholeFile" ELSE "tree"

Enumerations == EventsOf(asm.log, "addFilesToSet")

\* The files listed in the tree item.
TreeListing ==
    LET items == SelectSeq(asm.yielded, IsTreeItem) IN
    IF items = <<>> THEN {}
    ELSE {items[1].content[i] : i \in 3..Len(items[1].content)} \ {"\n"}

\* C21: in one assembly a resource is enumerated in the phase of its kind
\* only and at most once, every enabled resource exactly once when the
\* assembly returns; a file matched only by RepoMap or WholeFile resources
\* is not in the tree listing.
C21_OnePhasePerResource ==
    Started =>
      /\ \A i \in DOMAIN Enumerations :
           /\ Enumerations[i].name \in Range(enabled["s1"])
           /\ Enumerations[i].phase = PhaseOfKind(TypeOf(Enumerations[i].name))
           /\ \A j \in DOMAIN Enumerations : Enumerations[j].name = Enumerations[i].name => j = i
      /\ asm.pc = "done" => {Enumerations[i].name : i \in DOMAIN Enumerations} = Range(enabled["s1"])
      /\ TreeListing \subseteq UnionOf(TreeNames)

\* An assembly over a tree, a RepoMap and a WholeFile resource returned:
\* each was enumerated once, and readme.md, matched by the other two only,
\* is not in the tree listing.
C21_Witness ==
    /\ asm.pc = "done"
    /\ Len(TreeNames) = 1 /\ Len(RepoMapNames) = 1 /\ Len(WholeFileNames) = 1
    /\ Len(Enumerations) = 3
    /\ "readme.md" \in UnionOf(RepoMapNames) \cap UnionOf(WholeFileNames)
    /\ TreeListing # {}
    /\ "readme.md" \notin TreeListing

----------------------------------------------------------------------------
(* The files generateRepoMap passes over, checked under RepoMapSpec *)

FilesOf(log, ev) == [i \in DOMAIN EventsOf(log, ev) |-> EventsOf(log, ev)[i].file]

\* The file was read, and is empty or has an extension outside the table.
Skipped(f) ==
    fs[f] # ReadError /\ (fs[f] = "" \/ GetLanguageFromExtension(ExtName(f)) = NoLanguage)

\* C22: the chunker is called for a file only if its content was read, is
\* not empty and its extension is in the language table, and for every
\* such file that is reached; a file that is empty or has an unmapped
\* extension gets no section, is not reported as an error, and the files
\* after it are still processed.
C22_ChunkerOnlyForMappedContent ==
    \A c \in Calls :
    call[c].made =>
      LET log == call[c].result.log
          read == FilesOf(log, "getFile")
      IN /\ \A i \in DOMAIN FilesOf(log, "chunk") : Chunked(FilesOf(log, "chunk")[i])
         /\ FilesOf(log, "chunk") = SelectSeq(read, Chunked)
         /\ IsPrefix(read, call[c].files)
         /\ read # call[c].files => (call[c].result.threw /\ Fails(read[Len(read)]))
         /\ \A i \in DOMAIN call[c].files :
              Skipped(call[c].files[i]) =>
                /\ call[c].files[i] \notin Range(FilesOf(log, "errorLine"))
                /\ ~Occurs(<<call[c].files[i], ":">>, call[c].result.text)

\* A call on readme.md (code, but no mapped extension), the empty b.py and
\* a.ts returned the section of a.ts alone and reported no error.
C22_Witness ==
    /\ call["A"].made
    /\ call["A"].files = <<"readme.md", "b.py", "a.ts">>
    /\ fs["readme.md"] = CodeTwo /\ fs["b.py"] = "" /\ fs["a.ts"] = CodeTwo
    /\ FilesOf(call["A"].result.log, "chunk") = <<"a.ts">>
    /\ FilesOf(call["A"].result.log, "errorLine") = <<>>
    /\ call["A"].result.present
    /\ call["A"].result.text[3] = "a.ts"

----------------------------------------------------------------------------
(* The enabled set over an agent's life: fork, the other agent, restore.   *)

\* C23: immediately after a fork the child's enabled set holds exactly the
\* names the parent's set holds at that moment, none missing and none
\* extra.  (The fork leaves the parent's set as it was, so the parent's set
\* in the state after the fork is its set at fork time.)
C23_ChildEqualsParent ==
    (lastOp.op = "fork" /\ lastOp.ok) =>
      Range(enabled["s2"]) = Range(enabled["s1"])

\* C24: an agent's enabled set is changed only by that agent's own
\* operations: whenever a step changes the set of an agent, the call of
\* that step (enable, disable, set, restore, or the fork that creates it)
\* was made on that agent; the sets of all other agents stay as they were.
C24_OwnOperationsOnly ==
    [][\A t \in Sessions : enabled'[t] # enabled[t] => lastOp'.s = t]_vars

\* After the fork, the child has enabled a name the parent does not hold
\* and the parent's set still is what it was.
C24_Witness ==
    /\ attached = Sessions
    /\ lastOp.op = "enable" /\ lastOp.s = "s2" /\ lastOp.ok
    /\ enabled["s1"] = << <<"src">> >>
    /\ enabled["s2"] = << <<"src">>, <<"src", "foo">> >>

\* C25: serialize yields a plain list that holds exactly the names of the
\* agent's enabled set, each once, and changes no enabled set; deserialize
\* of a list sets the agent's enabled set to exactly the names of the list,
\* whatever the agent held before, so that restoring the list serialize
\* gave yields the serialized set again.
C25_SnapshotRoundTrip ==
    [][/\ lastOp'.op = "serialize" =>
            /\ enabled' = enabled
            /\ snapshot'.taken
            /\ Range(snapshot'.data) = Range(enabled[lastOp'.s])
            /\ Len(snapshot'.data) = Cardinality(Range(enabled[lastOp'.s]))
       /\ lastOp'.op = "deserialize" =>
            /\ Range(enabled'[lastOp'.s]) = Range(lastOp'.names)
            /\ Len(enabled'[lastOp'.s]) = Cardinality(Range(lastOp'.names))
            /\ snapshot' = snapshot
      ]_vars

\* The snapshot of src and src/foo was restored into the agent s1, whose
\* set now holds those two names, while s2 holds another set.
C25_Witness ==
    /\ lastOp.op = "deserialize" /\ lastOp.s = "s1"
    /\ snapshot.taken
    /\ lastOp.names = snapshot.data
    /\ snapshot.data = << <<"src">>, <<"src", "foo">> >>
    /\ enabled["s1"] = snapshot.data
    /\ enabled["s2"] = << <<"src", "foo">> >>

----------------------------------------------------------------------------
(* Attach and disable, checked under Spec *)

\* C26: when an agent attaches, its enabled set is seeded with exactly the
\* union of what the configured default-enabled names resolve to, patterns
\* expanded against the registry as it is at the attach, each name once.
\* (The configured list is the enabledResources that attach reads with
\* getAgentConfigSlice; it is an input here.)
C26_AttachSeedsResolvedDefaults ==
    (lastOp.op = "attach" /\ lastOp.ok) =>
      /\ Range(enabled[lastOp.s]) = ResolvedSet(lastOp.names, registry)
      /\ Len(enabled[lastOp.s]) = Cardinality(ResolvedSet(lastOp.names, registry))

\* An agent has attached with two configured names, one of them a pattern,
\* whose resolutions overlap, and holds two resources.
C26_Witness ==
    /\ lastOp.op = "attach" /\ lastOp.ok
    /\ Len(lastOp.names) = 2
    /\ IsWildcard(lastOp.names[1])
    /\ ~IsWildcard(lastOp.names[2])
    /\ Range(GetItemNamesLike(lastOp.names[2], registry))
         \subseteq Range(GetItemNamesLike(lastOp.names[1], registry))
    /\ Len(enabled[lastOp.s]) = 2

\* C27: a successful disable(names) removes from the enabled set exactly
\* the names that the list resolves to: every enabled name outside the
\* resolution stays, in its place; and a disable whose names all resolve
\* succeeds also when none of them is enabled, leaving the set as it was.
C27_DisableRemovesResolved ==
    lastOp.op = "disable" =>
      LET gone == ResolvedSet(lastOp.names, registry)
          stays(n) == n \notin gone
      IN /\ lastOp.ok => enabled[lastOp.s] = SelectSeq(lastOp.before, stays)
         /\ (/\ \A i \in DOMAIN lastOp.names : Resolves(lastOp.names[i], registry)
             /\ gone \cap Range(lastOp.before) = {})
            => (lastOp.ok /\ enabled[lastOp.s] = lastOp.before)

\* A disable of two names, one enabled and one registered but not enabled,
\* has succeeded: the enabled one is gone and another enabled name stays.
C27_Witness ==
    /\ lastOp.op = "disable" /\ lastOp.ok
    /\ Len(lastOp.names) = 2
    /\ ResolvedSet(lastOp.names, registry) \cap Range(lastOp.before) # {}
    /\ ResolvedSet(lastOp.names, registry) \ Range(lastOp.before) # {}
    /\ enabled[lastOp.s] # <<>>
    /\ Len(enabled[lastOp.s]) < Len(lastOp.before)

----------------------------------------------------------------------------
(* The order of the file operations of an assembly, checked under AsmSpec  *)

\* The calls on the file system and the chunker.
FileOps == {"getFile", "chunk", "errorLine", "readTextFile"}

\* C28: the file operations of an assembly happen one after the other.
\* Every event of the log is a call the generator awaits before it goes
\* on, so the calls are in flight in the order of the log, one at a time;
\* what the order must show is that no operation is begun before the one
\* before it is through: the enumerators of a phase all precede the
\* phase's file operations, the operations on one file of the synthesizer
\* are adjacent (the chunker follows the read of its file directly), and in
\* the whole-file phase every read directly follows the enumerators or the
\* yield of the item before it and is directly followed by the yield of
\* its own item (a read that is the last event is pending, or has failed).
C28_OneOperationAtATime ==
    Started =>
      LET log == asm.log IN
      /\ \A i, j \in DOMAIN log :
           (/\ i < j
            /\ log[i].ev \in FileOps
            /\ log[j].ev = "addFilesToSet")
           => log[i].phase # log[j].phase
      /\ \A i \in DOMAIN log :
           log[i].ev = "chunk" =>
             (i > 1 /\ log[i-1].ev = "getFile" /\ log[i-1].file = log[i].file)
      /\ \A i, j, k \in DOMAIN log :
           (/\ i < j /\ j < k
            /\ log[i].phase = "repoMap" /\ log[k].phase = "repoMap"
            /\ log[i].ev \in FileOps /\ log[k].ev \in FileOps
            /\ log[i].file = log[k].file)
           => (log[j].ev \in FileOps /\ log[j].file = log[i].file)
      /\ \A i \in DOMAIN log :
           log[i].ev = "readTextFile" =>
             /\ i > 1
             /\ \/ log[i-1].ev = "addFilesToSet" /\ log[i-1].phase = "wholeFile"
                \/ log[i-1].ev = "yield" /\ log[i-1].phase = "wholeFile"
             /\ i < Len(log) => (log[i+1].ev = "yield" /\ log[i+1].phase = "wholeFile")
             /\ i = Len(log) => (asm.busy \/ asm.pc = "failed")

\* An assembly has ended that called the synthesizer on two files or more
\* and read two whole files or more.
C28_Witness ==
    /\ asm.pc = "done"
    /\ Len(EventsOf(asm.log, "getFile")) >= 2
    /\ Len(EventsOf(asm.log, "chunk")) >= 1
    /\ Len(EventsOf(asm.log, "readTextFile")) >= 2

----------------------------------------------------------------------------
(* The enabled set changed during an assembly, checked under MixSpec *)

\* The names enumerated in a phase, in the order of the calls.
NamesIn(phase) ==
    LET evs == SelectSeq(Enumerations, LAMBDA e : e.phase = phase)
    IN [i \in DOMAIN evs |-> evs[i].name]

\* The names of a set whose resources belong to a phase, in set order.
OfPhase(set, phase) == SelectSeq(set, LAMBDA n : PhaseOfKind(TypeOf(n)) = phase)

\* C29: the resources an assembly consults are those enabled when the
\* generator was first resumed: in every phase the assembly has reached,
\* the resources enumerated are the resources of that phase in the set of
\* the first resumption, whatever enable, disable and set did to the
\* enabled set between the pulls; a changed set is consulted by the
\* assemblies that are first resumed after the change.
C29_ResourcesFixedAtFirstPull ==
    asm.pc \in {"tree", "repoMap", "wholeFile", "done"} =>
      /\ \A i \in DOMAIN Enumerations : Enumerations[i].name \in Range(lastOp.first)
      /\ \A r \in 1..3 :
           (asm.pc = "done" \/ r <= RankOfPhase(asm.pc)) =>
             NamesIn(PhaseName(r)) = OfPhase(lastOp.first, PhaseName(r))

\* An assembly has returned during which the whole-file resource was
\* disabled and the repo-map resource enabled after the first pull: the
\* whole-file resource was enumerated, the repo-map resource was not.
C29_Witness ==
    /\ asm.pc = "done"
    /\ lastOp.first = << <<"src">>, <<"other", "baz">> >>
    /\ enabled["s1"] = << <<"src">>, <<"src", "foo">> >>
    /\ NamesIn("wholeFile") = << <<"other", "baz">> >>
    /\ NamesIn("repoMap") = <<>>
    /\ Len(asm.yielded) = 3

----------------------------------------------------------------------------
(* The interactive selection, checked under CmdSpec *)

\* The registered names that lie under the folder of a folder value.
Under(value) ==
    {n \in RegisteredNames(registry) :
       Len(n) > Len(value) - 1 /\ IsPrefixOf(SubSeq(value, 1, Len(value) - 1), n)}

\* C30: after /codebase select with a selection that is not empty, the
\* enabled set holds exactly the names the chosen entries resolve to,
\* whatever it held before, a chosen folder bringing in every registered
\* name under it; after an empty selection or a cancel the enabled set is
\* what it was.
C30_SelectionReplaces ==
    lastOp.op = "select" =>
      IF lastOp.ok /\ lastOp.names # <<>>
      THEN /\ Range(enabled["s1"]) = ResolvedSet(lastOp.names, registry)
           /\ Len(enabled["s1"]) = Cardinality(ResolvedSet(lastOp.names, registry))
           /\ \A i \in DOMAIN lastOp.names :
                IsWildcard(lastOp.names[i]) =>
                  (Under(lastOp.names[i]) # {}
                   /\ Under(lastOp.names[i]) \subseteq Range(enabled["s1"]))
      ELSE enabled["s1"] = lastOp.before

\* The user chose the folder other: the set, which held src before, now
\* holds other/baz alone.
C30_Witness ==
    /\ lastOp.op = "select" /\ lastOp.ok
    /\ lastOp.names = << <<"other", "*">> >>
    /\ <<"src">> \in Range(lastOp.before)
    /\ enabled["s1"] = << <<"other", "baz">> >>

====
